---------------------------- MODULE Spec2Model ----------------------------
(***************************************************************************)
(* Model of the post-model reasoning layer of AgroMind AI:                 *)
(*   - get_top_n_predictions          (backend/utils/helpers.py)           *)
(*   - SustainabilityService          (backend/services/                   *)
(*                                     sustainability_service.py)          *)
(*   - _get_feature_explanation,                                           *)
(*     generate_human_readable_explanation (backend/utils/helpers.py)      *)
(*   - ExplainerService               (backend/services/                   *)
(*                                     explainer_service.py)               *)
(*   - the routes of the API blueprint and their validators                *)
(*                                    (backend/routes/api_routes.py,       *)
(*                                     backend/utils/validators.py)        *)
(*   - the getters of the shared services (get_ml_service, ...)            *)
(*   - concurrent analyze_soil_impact calls on the shared class tables     *)
(*                                                                         *)
(* Conventions.                                                            *)
(*   Sequences are 1-based here, Python lists are 0-based: index i of the  *)
(*   model is index i-1 of the code.  Order between indices is preserved.  *)
(*   Probabilities are integers in thousandths (permille): 853 is 0.853.   *)
(*   pH is an integer in tenths: 65 is 6.5.                                *)
(*   The analyzer's floats are IEEE 754 doubles [neg, m, e], computed with *)
(*   the rounding of every operation (see Python float arithmetic below).  *)
(***************************************************************************)
EXTENDS Integers, Sequences, FiniteSets, TLC

VARIABLES
    rankPc,     \* "idle" | "call" | "done": position of the ranker's caller
    rankIn,     \* [probabilities, labels, n]: arguments of get_top_n_predictions
    rankOut,    \* the list get_top_n_predictions returned
    soilPc,     \* "idle" | "call" | "done": position of the analyzer's caller
    soilIn,     \* [crop, soil_params, duration_months]: arguments of analyze_soil_impact
    report,     \* the dict analyze_soil_impact returned
    npkTable,   \* the class attribute SustainabilityService.CROP_NPK_CONSUMPTION
    waterTable, \* the class attribute SustainabilityService.CROP_WATER_NEEDS
    phrasePc,   \* "idle" | "call" | "done": position of _get_feature_explanation's caller
    phraseIn,   \* [feature, value, crop]: arguments of _get_feature_explanation
    phraseOut,  \* the string _get_feature_explanation returned
    explainPc,  \* "idle" | "call" | "done": position of explain_prediction's caller
    explainIn,  \* [features, crop, feature_names, feature_importance, explainer]:
                \* arguments of explain_prediction, the pickled feature names,
                \* the model's importances and self.explainer
    explainOut, \* the dict explain_prediction returned
    routePc,    \* per thread, its position in the view it runs: "request",
                \* the local a getter's result is assigned to, or "done"
    routeIn,    \* per thread, [route, data]: the route requested and the JSON
                \* body posted
    routeOut,   \* per thread, [status, body, invoked, raised]: the response,
                \* whether the view called its component and whether that
                \* call raised
    instance,   \* the module globals _ml_service, _explainer_service,
                \* _ai_agronomist, _sustainability_service: None or an instance
    constructed,\* per service, how many instances its constructor has made
    stack,      \* per thread, its call stack of getter frames
    returned,   \* per thread, the instance its last outermost getter call
                \* returned
    environment,\* [pickles, gemini]: whether the pickled model files load and
                \* whether the Gemini client is configured
    analysisPc,     \* per thread, its position in analyze_soil_impact
    analysisIn,     \* per thread, [crop, soil_params]: the call's arguments
    analysisLocals, \* per thread, the locals depletion and water_risk
    analysisOut     \* per thread, the dict its last call returned

rankVars == <<rankPc, rankIn, rankOut>>
soilVars == <<soilPc, soilIn, report>>
tableVars == <<npkTable, waterTable>>
phraseVars == <<phrasePc, phraseIn, phraseOut>>
explainVars == <<explainPc, explainIn, explainOut>>
routeVars == <<routePc, routeIn, routeOut>>
singletonVars == <<instance, constructed, stack, returned, environment>>
callVars == <<analysisPc, analysisIn, analysisLocals, analysisOut>>
vars == <<rankVars, soilVars, tableVars, phraseVars, explainVars, routeVars,
          singletonVars, callVars>>

(***************************************************************************)
(* Bounds of the model.                                                    *)
(***************************************************************************)
MaxLabels == 3      \* longest label list
MaxProb == 3        \* largest probability drawn, in thousandths
MaxNutrientStep == 2  \* nutrient levels drawn: 50, 100, ..., 50 * MaxNutrientStep
MaxRainStep == 4      \* rainfall levels drawn: 0, 50, ..., 50 * MaxRainStep
MaxDelta == 5         \* feature values drawn within MaxDelta tenths of a threshold
MaxFeatures == 4      \* most entries of an importance map
MaxWeight == 1        \* largest importance weight drawn, in thousandths
MaxExcess == 1        \* how far past the end of its range a posted field lies
MaxThreads == 2       \* request threads that run at the same time
MaxCallStep == 2      \* nitrogen levels of the concurrent calls: 50, ..., 50 * MaxCallStep

Max(a, b) == IF a >= b THEN a ELSE b
Min(a, b) == IF a <= b THEN a ELSE b

NoValue == [none |-> TRUE]

(***************************************************************************)
(* ----------------------------- PredictionRanker ------------------------ *)
(***************************************************************************)

\* label_encoder.classes_: the crop labels in sorted order.
AllLabels ==
    <<"apple", "banana", "blackgram", "chickpea", "coconut", "coffee",
      "cotton", "grapes", "jute", "kidneybeans", "lentil", "maize",
      "mango", "mothbeans", "mungbean", "muskmelon", "orange", "papaya",
      "pigeonpeas", "pomegranate", "rice", "watermelon">>

\* f"{probability * 100:.1f}%": the digits of the percentage with one decimal.
\* A probability of p thousandths is p/10 percent: whole part and one decimal.
format_confidence_score(probability) ==
    [whole |-> probability \div 10, tenth |-> probability % 10, suffix |-> "%"]

\* np.argsort(probabilities): a permutation of the indices that puts the
\* probabilities in non-decreasing order.  The default kind ('quicksort') is
\* not stable, so the order among equal probabilities is not determined by
\* the call: every sorting permutation is a possible outcome.
ArgSorts(probabilities) ==
    LET L == Len(probabilities) IN
    {order \in [1..L -> 1..L] :
        /\ \A i, j \in 1..L : i # j => order[i] # order[j]
        /\ \A i \in 1..L : i < L => probabilities[order[i]] <= probabilities[order[i + 1]]}

\* seq[-n:] of Python: the start is -n, counted from the end when negative and
\* clipped to [0, len]; -0 is 0, so n = 0 keeps the whole sequence.
\* Returns the 1-based index of the first element kept.
SliceStart(len, n) ==
    IF n > 0 THEN Max(len - n, 0) + 1 ELSE Min(0 - n, len) + 1

LastN(seq, n) == SubSeq(seq, SliceStart(Len(seq), n), Len(seq))

\* seq[::-1]
Reversed(seq) == [i \in 1..Len(seq) |-> seq[Len(seq) + 1 - i]]

\* Mutant of TopIndices: the [::-1] reversal is forgotten.
TopIndicesNotReversed(order, n) == LastN(order, n)

\* top_indices = np.argsort(probabilities)[-n:][::-1]
TopIndices(order, n) == Reversed(LastN(order, n))

\* Mutant of Prediction: the confidence is renormalised to the largest
\* probability of the vector.
PredictionRenormalised(probabilities, labels, idx) ==
    LET largest == CHOOSE p \in {probabilities[i] : i \in 1..Len(probabilities)} :
                       \A i \in 1..Len(probabilities) : probabilities[i] <= p
        confidence == IF largest = 0 THEN 0
                      ELSE (probabilities[idx] * 1000) \div largest
    IN  [crop |-> labels[idx],
         confidence |-> confidence,
         confidence_percent |-> format_confidence_score(confidence)]

\* One entry of the results: label, float(probability), formatted percentage.
Prediction(probabilities, labels, idx) ==
    [crop |-> labels[idx],
     confidence |-> probabilities[idx],
     confidence_percent |-> format_confidence_score(probabilities[idx])]

\* The body of get_top_n_predictions once argsort has produced `order`.
TopNResults(probabilities, labels, n, order) ==
    LET top_indices == TopIndices(order, n) IN
    [k \in 1..Len(top_indices) |-> Prediction(probabilities, labels, top_indices[k])]

ProbVectors == UNION {[1..L -> 0..MaxProb] : L \in 1..MaxLabels}
RankCounts == (0 - MaxLabels - 1)..(MaxLabels + 1)

InitRank ==
    /\ rankPc = "call"
    /\ \E p \in ProbVectors, n \in RankCounts :
          rankIn = [probabilities |-> p,
                    labels |-> SubSeq(AllLabels, 1, Len(p)),
                    n |-> n]
    /\ rankOut = <<>>

IdleRank ==
    /\ rankPc = "idle"
    /\ rankIn = NoValue
    /\ rankOut = <<>>

\* get_top_n_predictions(probabilities, labels, n)
GetTopNPredictions ==
    /\ rankPc = "call"
    /\ \E order \in ArgSorts(rankIn.probabilities) :
          rankOut' = TopNResults(rankIn.probabilities, rankIn.labels, rankIn.n, order)
    /\ rankPc' = "done"
    /\ UNCHANGED <<rankIn, soilVars, tableVars, phraseVars, explainVars, routeVars,
                   singletonVars, callVars>>

IdleSoil ==
    /\ soilPc = "idle"
    /\ soilIn = NoValue
    /\ report = NoValue


(***************************************************************************)
(* ---------------------- Python float arithmetic ------------------------ *)
(* A Python float is an IEEE 754 binary64 number: here the record          *)
(* [neg, m, e] of value (-1)^neg * m * 2^e, m a natural number of at most  *)
(* 53 bits, odd unless the number is 0 (then neg = FALSE, e = 0), so that  *)
(* equal numbers are equal records.  Every operation computes the exact    *)
(* result and rounds it to 53 bits, ties to even, as the hardware does.    *)
(* Naturals of more than 31 bits are sequences of limbs in base 2^15,      *)
(* lowest limb first, without high zero limbs.  Not modelled: infinities,  *)
(* NaN, subnormal numbers and the sign of zero.                            *)
(***************************************************************************)
Base == 32768
LimbBits == 15
Precision == 53

RECURSIVE BTrim(_)
BTrim(a) == IF a # <<>> /\ a[Len(a)] = 0 THEN BTrim(SubSeq(a, 1, Len(a) - 1)) ELSE a

BFromInt(n) ==
    IF n = 0 THEN <<>>
    ELSE IF n < Base THEN <<n>>
    ELSE IF n < Base * Base THEN <<n % Base, n \div Base>>
    ELSE <<n % Base, (n \div Base) % Base, n \div (Base * Base)>>

\* the natural number of at most two limbs as an integer
BToInt(a) ==
    IF a = <<>> THEN 0 ELSE IF Len(a) = 1 THEN a[1] ELSE a[1] + Base * a[2]

Limb(a, i) == IF i <= Len(a) THEN a[i] ELSE 0

RECURSIVE BAddFrom(_, _, _, _)
BAddFrom(a, b, i, carry) ==
    IF i > Len(a) /\ i > Len(b)
        THEN IF carry = 0 THEN <<>> ELSE <<carry>>
        ELSE LET t == Limb(a, i) + Limb(b, i) + carry
             IN  <<t % Base>> \o BAddFrom(a, b, i + 1, t \div Base)

BAdd(a, b) == BAddFrom(a, b, 1, 0)

\* a - b for a >= b
RECURSIVE BSubFrom(_, _, _, _)
BSubFrom(a, b, i, borrow) ==
    IF i > Len(a) THEN <<>>
    ELSE LET t == a[i] - Limb(b, i) - borrow
         IN  <<IF t < 0 THEN t + Base ELSE t>>
             \o BSubFrom(a, b, i + 1, IF t < 0 THEN 1 ELSE 0)

BSub(a, b) == BTrim(BSubFrom(a, b, 1, 0))

\* a * k for 0 <= k < Base
RECURSIVE BMulSmallFrom(_, _, _, _)
BMulSmallFrom(a, k, i, carry) ==
    IF i > Len(a)
        THEN IF carry = 0 THEN <<>> ELSE <<carry>>
        ELSE LET t == a[i] * k + carry
             IN  <<t % Base>> \o BMulSmallFrom(a, k, i + 1, t \div Base)

BMulSmall(a, k) == IF k = 0 THEN <<>> ELSE BMulSmallFrom(a, k, 1, 0)

Zeros(n) == [i \in 1..n |-> 0]

\* a * Base^n
BShiftLimbs(a, n) == IF a = <<>> THEN a ELSE Zeros(n) \o a

RECURSIVE BMulFrom(_, _, _)
BMulFrom(a, b, i) ==
    IF i > Len(b) THEN <<>>
    ELSE BAdd(BShiftLimbs(BMulSmall(a, b[i]), i - 1), BMulFrom(a, b, i + 1))

BMul(a, b) == BMulFrom(a, b, 1)

\* quotient and remainder of a by k, 0 < k < Base: long division from the
\* highest limb
RECURSIVE BDivSmallFrom(_, _, _, _)
BDivSmallFrom(a, k, i, rem) ==
    IF i = 0 THEN [q |-> <<>>, r |-> rem]
    ELSE LET t == rem * Base + a[i]
             rest == BDivSmallFrom(a, k, i - 1, t % k)
         IN  [q |-> Append(rest.q, t \div k), r |-> rest.r]

BDivSmall(a, k) ==
    LET d == BDivSmallFrom(a, k, Len(a), 0) IN [q |-> BTrim(d.q), r |-> d.r]

\* a * 2^n
BShl(a, n) ==
    BShiftLimbs(IF n % LimbBits = 0 THEN a ELSE BMulSmall(a, 2 ^ (n % LimbBits)),
                n \div LimbBits)

\* floor(a / 2^n)
BShr(a, n) ==
    LET dropped == n \div LimbBits IN
    IF dropped >= Len(a) THEN <<>>
    ELSE IF n % LimbBits = 0 THEN SubSeq(a, dropped + 1, Len(a))
    ELSE BDivSmall(SubSeq(a, dropped + 1, Len(a)), 2 ^ (n % LimbBits)).q

\* the n lowest bits of a are all 0
BLowZero(a, n) ==
    /\ \A i \in 1..Min(n \div LimbBits, Len(a)) : a[i] = 0
    /\ Limb(a, n \div LimbBits + 1) % (2 ^ (n % LimbBits)) = 0

\* bit n of a, the lowest being bit 0
BBit(a, n) == (Limb(a, n \div LimbBits + 1) \div (2 ^ (n % LimbBits))) % 2

\* the number of bits of a limb, of a natural number
LimbLen(x) == IF x = 0 THEN 0 ELSE CHOOSE k \in 1..LimbBits : 2 ^ (k - 1) <= x /\ x < 2 ^ k
BBitLen(a) == IF a = <<>> THEN 0 ELSE (Len(a) - 1) * LimbBits + LimbLen(a[Len(a)])

\* the number of zero bits below the lowest 1 of a # 0
LimbTrailing(x) == CHOOSE k \in 0..(LimbBits - 1) : x % (2 ^ k) = 0 /\ (x \div (2 ^ k)) % 2 = 1
BTrailing(a) ==
    LET first == CHOOSE i \in 1..Len(a) : a[i] # 0 /\ \A j \in 1..(i - 1) : a[j] = 0
    IN  (first - 1) * LimbBits + LimbTrailing(a[first])

\* a < b
RECURSIVE BLessFrom(_, _, _)
BLessFrom(a, b, i) ==
    IF i = 0 THEN FALSE
    ELSE IF a[i] # b[i] THEN a[i] < b[i]
    ELSE BLessFrom(a, b, i - 1)

BLess(a, b) ==
    IF Len(a) # Len(b) THEN Len(a) < Len(b) ELSE BLessFrom(a, b, Len(a))

FlZero == [neg |-> FALSE, m |-> <<>>, e |-> 0]

\* (-1)^neg * m * 2^e with m odd
FlCanonical(neg, m, e) ==
    IF m = <<>> THEN FlZero
    ELSE LET zeros == BTrailing(m)
         IN  [neg |-> neg, m |-> BShr(m, zeros), e |-> e + zeros]

\* The float nearest to (-1)^neg * (m + f) * 2^e, where 0 <= f < 1 and f > 0
\* iff sticky (m has more than 54 bits when sticky): round half to even.
FlRound(neg, m, e, sticky) ==
    LET excess == BBitLen(m) - Precision IN
    IF excess <= 0 THEN FlCanonical(neg, m, e)
    ELSE LET kept == BShr(m, excess)
             half == BBit(m, excess - 1) = 1
             below == sticky \/ ~BLowZero(m, excess - 1)
             up == half /\ (below \/ BBit(kept, 0) = 1)
         IN  FlCanonical(neg, IF up THEN BAdd(kept, <<1>>) ELSE kept, e + excess)

\* float(n) of an integer -2^31 < n < 2^31
FlFromInt(n) == FlCanonical(n < 0, BFromInt(IF n < 0 THEN 0 - n ELSE n), 0)

\* a / b of two integers, 0 < b < Base = 32768: the quotient to 75 binary
\* places and whether anything is left, rounded
DivisionBits == 75
FlDivInt(a, b) ==
    LET d == BDivSmall(BShl(BFromInt(IF a < 0 THEN 0 - a ELSE a), DivisionBits), b)
    IN  FlRound(a < 0, d.q, 0 - DivisionBits, d.r # 0)

\* x / k of a float by an integer 0 < k < Base
FlDivSmall(x, k) ==
    LET d == BDivSmall(BShl(x.m, DivisionBits), k)
    IN  FlRound(x.neg, d.q, x.e - DivisionBits, d.r # 0)

FlMul(x, y) == FlRound(x.neg # y.neg, BMul(x.m, y.m), x.e + y.e, FALSE)

FlNeg(x) == IF x.m = <<>> THEN x ELSE [x EXCEPT !.neg = ~x.neg]

\* both mantissas at the lower of the two exponents
FlAligned(x, y) ==
    LET e == IF x.m = <<>> THEN y.e ELSE IF y.m = <<>> THEN x.e ELSE Min(x.e, y.e)
    IN  [x |-> IF x.m = <<>> THEN x.m ELSE BShl(x.m, x.e - e),
         y |-> IF y.m = <<>> THEN y.m ELSE BShl(y.m, y.e - e),
         e |-> e]

FlAdd(x, y) ==
    LET a == FlAligned(x, y) IN
    IF x.neg = y.neg THEN FlRound(x.neg, BAdd(a.x, a.y), a.e, FALSE)
    ELSE IF BLess(a.x, a.y) THEN FlRound(y.neg, BSub(a.y, a.x), a.e, FALSE)
    ELSE FlRound(x.neg, BSub(a.x, a.y), a.e, FALSE)

FlSub(x, y) == FlAdd(x, FlNeg(y))

FlLess(x, y) ==
    LET a == FlAligned(x, y) IN
    IF x.neg # y.neg THEN x.neg
    ELSE IF x.neg THEN BLess(a.y, a.x)
    ELSE BLess(a.x, a.y)

FlGt(x, y) == FlLess(y, x)
FlGe(x, y) == ~FlLess(x, y)

\* int(x), truncation toward zero, for |x| < 2^30
FlTrunc(x) ==
    LET magnitude == BToInt(IF x.e >= 0 THEN BShl(x.m, x.e) ELSE BShr(x.m, 0 - x.e))
    IN  IF x.neg THEN 0 - magnitude ELSE magnitude

\* the float literal 0.3 = 5404319552844595 * 2^-54
ThreeTenths == [neg |-> FALSE, m |-> <<13107, 26214, 19660, 153>>, e |-> 0 - 54]

(***************************************************************************)
(* -------------------------- SustainabilityAnalyzer --------------------- *)
(***************************************************************************)

\* SustainabilityService.CROP_NPK_CONSUMPTION
CROP_NPK_CONSUMPTION ==
    [c \in {"rice", "maize", "chickpea", "kidneybeans", "pigeonpeas", "mothbeans",
            "mungbean", "blackgram", "lentil", "pomegranate", "banana", "mango",
            "grapes", "watermelon", "muskmelon", "apple", "orange", "papaya",
            "coconut", "cotton", "jute", "coffee"} |->
        CASE c = "rice"        -> [N |-> 120, P |-> 60,  K |-> 60]
          [] c = "maize"       -> [N |-> 150, P |-> 75,  K |-> 50]
          [] c = "chickpea"    -> [N |-> 20,  P |-> 60,  K |-> 40]
          [] c = "kidneybeans" -> [N |-> 30,  P |-> 50,  K |-> 50]
          [] c = "pigeonpeas"  -> [N |-> 25,  P |-> 50,  K |-> 40]
          [] c = "mothbeans"   -> [N |-> 30,  P |-> 45,  K |-> 45]
          [] c = "mungbean"    -> [N |-> 25,  P |-> 50,  K |-> 50]
          [] c = "blackgram"   -> [N |-> 30,  P |-> 50,  K |-> 45]
          [] c = "lentil"      -> [N |-> 20,  P |-> 55,  K |-> 40]
          [] c = "pomegranate" -> [N |-> 100, P |-> 50,  K |-> 100]
          [] c = "banana"      -> [N |-> 200, P |-> 80,  K |-> 200]
          [] c = "mango"       -> [N |-> 150, P |-> 100, K |-> 120]
          [] c = "grapes"      -> [N |-> 120, P |-> 80,  K |-> 150]
          [] c = "watermelon"  -> [N |-> 100, P |-> 60,  K |-> 80]
          [] c = "muskmelon"   -> [N |-> 90,  P |-> 55,  K |-> 75]
          [] c = "apple"       -> [N |-> 130, P |-> 90,  K |-> 110]
          [] c = "orange"      -> [N |-> 140, P |-> 70,  K |-> 100]
          [] c = "papaya"      -> [N |-> 110, P |-> 80,  K |-> 90]
          [] c = "coconut"     -> [N |-> 100, P |-> 50,  K |-> 120]
          [] c = "cotton"      -> [N |-> 120, P |-> 60,  K |-> 60]
          [] c = "jute"        -> [N |-> 80,  P |-> 40,  K |-> 40]
          [] c = "coffee"      -> [N |-> 100, P |-> 50,  K |-> 80]]

\* SustainabilityService.CROP_WATER_NEEDS
CROP_WATER_NEEDS ==
    [c \in DOMAIN CROP_NPK_CONSUMPTION |->
        CASE c = "rice" -> 1200        [] c = "maize" -> 600
          [] c = "chickpea" -> 400     [] c = "kidneybeans" -> 500
          [] c = "pigeonpeas" -> 450   [] c = "mothbeans" -> 400
          [] c = "mungbean" -> 350     [] c = "blackgram" -> 400
          [] c = "lentil" -> 450       [] c = "pomegranate" -> 800
          [] c = "banana" -> 1500      [] c = "mango" -> 1000
          [] c = "grapes" -> 900       [] c = "watermelon" -> 500
          [] c = "muskmelon" -> 450    [] c = "apple" -> 800
          [] c = "orange" -> 900       [] c = "papaya" -> 800
          [] c = "coconut" -> 1200     [] c = "cotton" -> 700
          [] c = "jute" -> 600         [] c = "coffee" -> 1000]

\* dict.get(key, default)
Get(dict, key, default) == IF key \in DOMAIN dict THEN dict[key] ELSE default

\* str.lower() of one character.  A string of the model holds characters up
\* to U+00FF; the cased letters among them are A..Z and the capital letters
\* of Latin-1 (U+00C0..U+00DE without the multiplication sign), each lowered
\* to one character.  Every other character up to U+00FF is its own lower().
LowerLetter(c) ==
    CASE c = "A" -> "a" [] c = "B" -> "b" [] c = "C" -> "c" [] c = "D" -> "d"
      [] c = "E" -> "e" [] c = "F" -> "f" [] c = "G" -> "g" [] c = "H" -> "h"
      [] c = "I" -> "i" [] c = "J" -> "j" [] c = "K" -> "k" [] c = "L" -> "l"
      [] c = "M" -> "m" [] c = "N" -> "n" [] c = "O" -> "o" [] c = "P" -> "p"
      [] c = "Q" -> "q" [] c = "R" -> "r" [] c = "S" -> "s" [] c = "T" -> "t"
      [] c = "U" -> "u" [] c = "V" -> "v" [] c = "W" -> "w" [] c = "X" -> "x"
      [] c = "Y" -> "y" [] c = "Z" -> "z" [] c = "À" -> "à" [] c = "Á" -> "á"
      [] c = "Â" -> "â" [] c = "Ã" -> "ã" [] c = "Ä" -> "ä" [] c = "Å" -> "å"
      [] c = "Æ" -> "æ" [] c = "Ç" -> "ç" [] c = "È" -> "è" [] c = "É" -> "é"
      [] c = "Ê" -> "ê" [] c = "Ë" -> "ë" [] c = "Ì" -> "ì" [] c = "Í" -> "í"
      [] c = "Î" -> "î" [] c = "Ï" -> "ï" [] c = "Ð" -> "ð" [] c = "Ñ" -> "ñ"
      [] c = "Ò" -> "ò" [] c = "Ó" -> "ó" [] c = "Ô" -> "ô" [] c = "Õ" -> "õ"
      [] c = "Ö" -> "ö" [] c = "Ø" -> "ø" [] c = "Ù" -> "ù" [] c = "Ú" -> "ú"
      [] c = "Û" -> "û" [] c = "Ü" -> "ü" [] c = "Ý" -> "ý" [] c = "Þ" -> "þ"
      [] OTHER -> c

\* crop.lower(): the string with every character lowered
RECURSIVE Lower(_)
Lower(crop) ==
    IF crop = "" THEN "" ELSE LowerLetter(Head(crop)) \o Lower(Tail(crop))

\* Mutant of Consumption: the default profile is N=50, P=50, K=50.
ConsumptionLightDefault(table, crop) == Get(table, crop, [N |-> 50, P |-> 50, K |-> 50])

\* consumption = self.CROP_NPK_CONSUMPTION.get(crop, {'N': 100, 'P': 50, 'K': 50})
Consumption(table, crop) == Get(table, crop, [N |-> 100, P |-> 50, K |-> 50])

\* water_need = self.CROP_WATER_NEEDS.get(crop, 600)
WaterNeed(table, crop) == Get(table, crop, 600)

\* remaining_x = max(0, current_x - consumption['X'])
Remaining(current, consumed) == Max(0, current - consumed)

\* x_depletion = (consumption['X'] / max(current_x, 1)) * 100
RawDepletion(current, consumed) ==
    FlMul(FlDivInt(consumed, Max(current, 1)), FlFromInt(100))

\* Mutant of CappedDepletion: the min(100, .) cap is forgotten.
UncappedDepletion(raw) == raw

\* min(100, x_depletion): 100 unless x_depletion < 100
CappedDepletion(raw) == IF FlLess(raw, FlFromInt(100)) THEN raw ELSE FlFromInt(100)

\* (a + b + c) / 3 and sum([a, b, c]) / 3: the additions from left to right,
\* each rounded, then the division
Average3(a, b, c) == FlDivSmall(FlAdd(FlAdd(a, b), c), 3)

_get_depletion_severity(n_dep, p_dep, k_dep) ==
    LET avg_depletion == Average3(n_dep, p_dep, k_dep) IN
    IF FlGt(avg_depletion, FlFromInt(70)) THEN "severe"
    ELSE IF FlGt(avg_depletion, FlFromInt(50)) THEN "high"
    ELSE IF FlGt(avg_depletion, FlFromInt(30)) THEN "moderate"
    ELSE "low"

_calculate_nutrient_depletion(table, crop, soil_params) ==
    LET consumption == Consumption(table, crop)
        current_n == Get(soil_params, "N", 50)
        current_p == Get(soil_params, "P", 50)
        current_k == Get(soil_params, "K", 50)
        n_depletion == RawDepletion(current_n, consumption.N)
        p_depletion == RawDepletion(current_p, consumption.P)
        k_depletion == RawDepletion(current_k, consumption.K)
    IN  [consumption |-> consumption,
         remaining |-> [N |-> Remaining(current_n, consumption.N),
                        P |-> Remaining(current_p, consumption.P),
                        K |-> Remaining(current_k, consumption.K)],
         depletion_percent |-> [N |-> CappedDepletion(n_depletion),
                                P |-> CappedDepletion(p_depletion),
                                K |-> CappedDepletion(k_depletion)],
         severity |-> _get_depletion_severity(n_depletion, p_depletion, k_depletion)]

\* Mutant of RiskLevel: the thresholds are inclusive.
RiskLevelInclusive(water_deficit, water_surplus) ==
    IF water_deficit >= 400 THEN "high"
    ELSE IF water_deficit >= 200 THEN "medium"
    ELSE IF water_surplus >= 400 THEN "medium"
    ELSE "low"

\* the if / elif ladder of _calculate_water_risk
RiskLevel(water_deficit, water_surplus) ==
    IF water_deficit > 400 THEN "high"
    ELSE IF water_deficit > 200 THEN "medium"
    ELSE IF water_surplus > 400 THEN "medium"
    ELSE "low"

\* risk_message: the text and the amount embedded with {:.0f} (the amounts
\* of the model are whole numbers, which {:.0f} prints unchanged)
RiskMessage(water_deficit, water_surplus) ==
    IF water_deficit > 400
        THEN <<"Significant irrigation needed (", water_deficit, "mm deficit)">>
    ELSE IF water_deficit > 200
        THEN <<"Moderate irrigation required (", water_deficit, "mm deficit)">>
    ELSE IF water_surplus > 400
        THEN <<"Excess water may cause issues (", water_surplus, "mm surplus)">>
    ELSE <<"Water availability is adequate">>

\* Mutant of _calculate_water_risk: the surplus is not floored at 0.
WaterRiskSignedSurplus(table, crop, rainfall) ==
    LET water_need == WaterNeed(table, crop)
        seasonal_rainfall == rainfall * 4
        water_deficit == Max(0, water_need - seasonal_rainfall)
        water_surplus == seasonal_rainfall - water_need
    IN  [water_need |-> water_need,
         available_water |-> seasonal_rainfall,
         deficit |-> water_deficit,
         surplus |-> water_surplus,
         risk_level |-> RiskLevel(water_deficit, water_surplus),
         message |-> RiskMessage(water_deficit, water_surplus)]

_calculate_water_risk(table, crop, rainfall) ==
    LET water_need == WaterNeed(table, crop)
        seasonal_rainfall == rainfall * 4
        water_deficit == Max(0, water_need - seasonal_rainfall)
        water_surplus == Max(0, seasonal_rainfall - water_need)
    IN  [water_need |-> water_need,
         available_water |-> seasonal_rainfall,
         deficit |-> water_deficit,
         surplus |-> water_surplus,
         risk_level |-> RiskLevel(water_deficit, water_surplus),
         message |-> RiskMessage(water_deficit, water_surplus)]

NitrogenFixerEntry ==
    [reason |-> "High nitrogen depletion",
     crops |-> <<"chickpea", "pigeonpeas", "lentil", "mungbean", "blackgram">>,
     benefit |-> "These crops will restore nitrogen to the soil"]

LightFeederEntry ==
    [reason |-> "Overall nutrient depletion",
     crops |-> <<"mothbeans", "jute", "watermelon", "muskmelon">>,
     benefit |-> "These crops have lower nutrient requirements"]

FallowEntry ==
    [reason |-> "Severe soil depletion",
     crops |-> <<"fallow period with cover crops">>,
     benefit |-> "Allow soil to recover naturally"]

SoilHealthGoodEntry ==
    [reason |-> "Soil health is good",
     crops |-> <<"Continue with similar crops or diversify">>,
     benefit |-> "Maintain soil balance"]

\* avg_depletion = sum(depletion['depletion_percent'].values()) / 3
AvgDepletionPercent(depletion) ==
    Average3(depletion.depletion_percent.N,
             depletion.depletion_percent.P,
             depletion.depletion_percent.K)

\* Mutant of MatchedSuggestions: the light-feeder entry is appended before
\* the nitrogen-fixer entry.
MatchedSuggestionsSwapped(depletion) ==
    (IF FlGt(AvgDepletionPercent(depletion), FlFromInt(50))
        THEN <<LightFeederEntry>> ELSE <<>>)
    \o (IF FlGt(depletion.depletion_percent.N, FlFromInt(60))
        THEN <<NitrogenFixerEntry>> ELSE <<>>)
    \o (IF depletion.severity = "severe" THEN <<FallowEntry>> ELSE <<>>)

\* the three `if ...: suggestions.append(...)` of _suggest_crop_rotation
MatchedSuggestions(depletion) ==
    (IF FlGt(depletion.depletion_percent.N, FlFromInt(60))
        THEN <<NitrogenFixerEntry>> ELSE <<>>)
    \o (IF FlGt(AvgDepletionPercent(depletion), FlFromInt(50))
        THEN <<LightFeederEntry>> ELSE <<>>)
    \o (IF depletion.severity = "severe" THEN <<FallowEntry>> ELSE <<>>)

\* Mutant of SuggestionsOrDefault: the list is returned as it is.
SuggestionsNoDefault(suggestions) == suggestions

\* suggestions if suggestions else [{'reason': 'Soil health is good', ...}]
SuggestionsOrDefault(suggestions) ==
    IF suggestions # <<>> THEN suggestions ELSE <<SoilHealthGoodEntry>>

_suggest_crop_rotation(current_crop, depletion) ==
    [current_crop |-> current_crop,
     suggestions |-> SuggestionsOrDefault(MatchedSuggestions(depletion))]

\* Mutant of WaterPenalty: a high water risk costs 30 points.
WaterPenaltyHeavy(risk_level) ==
    IF risk_level = "high" THEN 30 ELSE IF risk_level = "medium" THEN 10 ELSE 0

\* if risk_level == 'high': score -= 20 / elif risk_level == 'medium': score -= 10
WaterPenalty(risk_level) ==
    IF risk_level = "high" THEN 20 ELSE IF risk_level = "medium" THEN 10 ELSE 0

\* Mutant of PhBonus: the upper bound is exclusive.
PhBonusExclusive(pH) == IF 60 <= pH /\ pH < 75 THEN 5 ELSE 0

\* if 6.0 <= pH <= 7.5: score += 5      (pH in tenths)
PhBonus(pH) == IF 60 <= pH /\ pH <= 75 THEN 5 ELSE 0

\* The float `score` before int() and clamping: score = 100, score -=
\* avg_depletion * 0.3, then the water penalty, then the pH bonus.
RawScore(depletion, water_risk, soil_params) ==
    FlAdd(FlSub(FlSub(FlFromInt(100),
                      FlMul(AvgDepletionPercent(depletion), ThreeTenths)),
                FlFromInt(WaterPenalty(water_risk.risk_level))),
          FlFromInt(PhBonus(Get(soil_params, "pH", 70))))

\* Mutant of ClampScore: the upper clamp is forgotten.
ClampScoreNoUpper(score) == Max(0, score)

\* max(0, min(100, .))
ClampScore(score) == Max(0, Min(100, score))

\* return max(0, min(100, int(score)))
_calculate_sustainability_score(depletion, water_risk, soil_params) ==
    ClampScore(FlTrunc(RawScore(depletion, water_risk, soil_params)))

\* Mutant of _generate_recommendations: drainage is advised for a surplus
\* above 400 (the risk ladder's threshold) instead of 300.
GenerateRecommendationsDrainage400(crop, depletion, water_risk, score) ==
    (IF FlGt(depletion.depletion_percent.N, FlFromInt(50))
        THEN <<"Apply nitrogen-rich fertilizers or compost before next planting">>
        ELSE <<>>)
    \o (IF FlGt(depletion.depletion_percent.P, FlFromInt(50))
        THEN <<"Add phosphate fertilizers to restore phosphorus levels">>
        ELSE <<>>)
    \o (IF FlGt(depletion.depletion_percent.K, FlFromInt(50))
        THEN <<"Use potash or wood ash to replenish potassium">>
        ELSE <<>>)
    \o (IF water_risk.risk_level = "high"
        THEN <<"Install drip irrigation system to conserve water",
               "Use mulching to reduce water evaporation">>
        ELSE IF water_risk.surplus > 400
        THEN <<"Ensure proper drainage to prevent waterlogging">>
        ELSE <<>>)
    \o (IF score < 60
        THEN <<"Consider crop rotation to improve soil health",
               "Add organic matter to enhance soil structure">>
        ELSE <<>>)

\* The recommendations.append(...) calls of _generate_recommendations, before
\* the final `if not recommendations`.
_generate_recommendations(crop, depletion, water_risk, score) ==
    (IF FlGt(depletion.depletion_percent.N, FlFromInt(50))
        THEN <<"Apply nitrogen-rich fertilizers or compost before next planting">>
        ELSE <<>>)
    \o (IF FlGt(depletion.depletion_percent.P, FlFromInt(50))
        THEN <<"Add phosphate fertilizers to restore phosphorus levels">>
        ELSE <<>>)
    \o (IF FlGt(depletion.depletion_percent.K, FlFromInt(50))
        THEN <<"Use potash or wood ash to replenish potassium">>
        ELSE <<>>)
    \o (IF water_risk.risk_level = "high"
        THEN <<"Install drip irrigation system to conserve water",
               "Use mulching to reduce water evaporation">>
        ELSE IF water_risk.surplus > 300
        THEN <<"Ensure proper drainage to prevent waterlogging">>
        ELSE <<>>)
    \o (IF score < 60
        THEN <<"Consider crop rotation to improve soil health",
               "Add organic matter to enhance soil structure">>
        ELSE <<>>)

\* Mutant of RecommendationsOrDefault: the list is returned as it is.
RecommendationsNoDefault(recommendations) == recommendations

\* if not recommendations: recommendations.append('Maintain current ...')
RecommendationsOrDefault(recommendations) ==
    IF recommendations # <<>> THEN recommendations
    ELSE <<"Maintain current sustainable practices">>

\* Mutant of SoilImpactReport: the seasonal rainfall is the monthly rainfall
\* times duration_months instead of times 4.
SoilImpactReportByDuration(npk, water, crop, soil_params, duration_months) ==
    LET crop_lower == Lower(crop)
        depletion == _calculate_nutrient_depletion(npk, crop_lower, soil_params)
        water_need == WaterNeed(water, crop_lower)
        seasonal_rainfall == Get(soil_params, "rainfall", 0) * duration_months
        water_deficit == Max(0, water_need - seasonal_rainfall)
        water_surplus == Max(0, seasonal_rainfall - water_need)
        water_risk == [water_need |-> water_need,
                       available_water |-> seasonal_rainfall,
                       deficit |-> water_deficit,
                       surplus |-> water_surplus,
                       risk_level |-> RiskLevel(water_deficit, water_surplus),
                       message |-> RiskMessage(water_deficit, water_surplus)]
        rotation == _suggest_crop_rotation(crop_lower, depletion)
        sustainability_score ==
            _calculate_sustainability_score(depletion, water_risk, soil_params)
    IN  [crop |-> crop,
         sustainability_score |-> sustainability_score,
         nutrient_depletion |-> depletion,
         water_risk |-> water_risk,
         crop_rotation |-> rotation,
         recommendations |->
            RecommendationsOrDefault(
                _generate_recommendations(crop_lower, depletion, water_risk,
                                          sustainability_score))]

\* The dict analyze_soil_impact returns.
SoilImpactReport(npk, water, crop, soil_params, duration_months) ==
    LET crop_lower == Lower(crop)
        depletion == _calculate_nutrient_depletion(npk, crop_lower, soil_params)
        water_risk == _calculate_water_risk(water, crop_lower,
                                            Get(soil_params, "rainfall", 0))
        rotation == _suggest_crop_rotation(crop_lower, depletion)
        sustainability_score ==
            _calculate_sustainability_score(depletion, water_risk, soil_params)
    IN  [crop |-> crop,
         sustainability_score |-> sustainability_score,
         nutrient_depletion |-> depletion,
         water_risk |-> water_risk,
         crop_rotation |-> rotation,
         recommendations |->
            RecommendationsOrDefault(
                _generate_recommendations(crop_lower, depletion, water_risk,
                                          sustainability_score))]

(***************************************************************************)
(* Inputs of the analyzer.  The /soil-impact route passes the request's    *)
(* values on without validating them, so values outside the documented     *)
(* ranges (negative, zero, very large) are inputs the analyzer receives.   *)
(***************************************************************************)
SoilCrops == {"rice", "Rice", "chickpea", "dragonfruit"}
NutrientLevels == {0 - 10, 0, 1000} \cup {50 * k : k \in 1..MaxNutrientStep}
PhLevels == {59, 60, 75, 76}
RainfallLevels == {1000} \cup {50 * k : k \in 0..MaxRainStep}
DurationLevels == {4, 6}
SoilKeys == {"N", "P", "K", "pH", "rainfall"}

\* Soils whose average depletion is exactly 50 in the reals and
\* 50.00000000000001 in floats (chickpea, rice).
RoundingSoils ==
    {[N |-> 55, P |-> 72, K |-> 132, pH |-> 65, rainfall |-> 150],
     [N |-> 144, P |-> 165, K |-> 198, pH |-> 65, rainfall |-> 150]}

\* soil_params dicts: every key present; one key absent (its default applies)
\* from the dicts of one pH and one rainfall; the soils above
SoilParams ==
    LET full == {[N |-> n, P |-> p, K |-> k, pH |-> h, rainfall |-> r] :
                    n \in NutrientLevels, p \in NutrientLevels \ {0 - 10},
                    k \in NutrientLevels \ {0 - 10},
                    h \in PhLevels, r \in RainfallLevels}
        Without(d, key) == [x \in SoilKeys \ {key} |-> d[x]]
    IN  full
        \cup {Without(d, key) : d \in {f \in full : f.pH = 59 /\ f.rainfall = 50},
                                key \in SoilKeys}
        \cup RoundingSoils

InitSoil ==
    /\ soilPc = "call"
    /\ \E c \in SoilCrops, sp \in SoilParams, d \in DurationLevels :
          soilIn = [crop |-> c, soil_params |-> sp, duration_months |-> d]
    /\ report = NoValue

\* SustainabilityService.analyze_soil_impact(crop, soil_params, duration_months)
AnalyzeSoilImpact ==
    /\ soilPc = "call"
    /\ report' = SoilImpactReport(npkTable, waterTable, soilIn.crop,
                                  soilIn.soil_params, soilIn.duration_months)
    /\ soilPc' = "done"
    /\ UNCHANGED <<soilIn, tableVars, rankVars, phraseVars, explainVars, routeVars,
                   singletonVars, callVars>>

InitTables ==
    /\ npkTable = CROP_NPK_CONSUMPTION
    /\ waterTable = CROP_WATER_NEEDS


(***************************************************************************)
(* ----------------------------- FeatureAttributor ----------------------- *)
(* Feature values are integers in tenths: 2005 is 200.5.                   *)
(***************************************************************************)

\* f"{value:.0f}": the magnitude rounded to a whole number, ties to even (a
\* value with one decimal ending in .5 is exact in binary floating point),
\* after the sign of a negative value, which a result of zero keeps ("-0").
FormatWhole(value) ==
    LET magnitude == IF value < 0 THEN 0 - value ELSE value
        q == magnitude \div 10
        r == magnitude % 10
    IN  (IF value < 0 THEN "-" ELSE "")
        \o ToString(IF r < 5 THEN q
                    ELSE IF r > 5 THEN q + 1
                    ELSE IF q % 2 = 0 THEN q ELSE q + 1)

\* f"{value:.1f}": the sign of a negative value, then the magnitude with one
\* decimal.
FormatTenth(value) ==
    LET magnitude == IF value < 0 THEN 0 - value ELSE value
    IN  (IF value < 0 THEN "-" ELSE "")
        \o ToString(magnitude \div 10) \o "." \o ToString(magnitude % 10)

\* Strings are sequences of pieces: the template's text, the formatted value,
\* the crop.  The empty string is the empty sequence.
RainfallPhrase(value, crop) ==
    IF value > 2000
        THEN <<"High rainfall (", FormatWhole(value), "mm) provides excellent moisture for ", crop, ".">>
    ELSE IF value > 1000
        THEN <<"Moderate rainfall (", FormatWhole(value), "mm) is suitable for ", crop, ".">>
    ELSE <<"Low rainfall (", FormatWhole(value), "mm) matches ", crop, "'s water requirements.">>

HumidityPhrase(value, crop) ==
    IF value > 800
        THEN <<"High humidity (", FormatWhole(value), "%) creates ideal conditions for ", crop, ".">>
    ELSE IF value > 600
        THEN <<"Moderate humidity (", FormatWhole(value), "%) supports ", crop, " growth.">>
    ELSE <<"Low humidity (", FormatWhole(value), "%) suits ", crop, "'s climate needs.">>

TemperaturePhrase(value, crop) ==
    IF value > 300
        THEN <<"Warm temperature (", FormatTenth(value), "°C) is optimal for ", crop, ".">>
    ELSE IF value > 200
        THEN <<"Moderate temperature (", FormatTenth(value), "°C) favors ", crop, " cultivation.">>
    ELSE <<"Cool temperature (", FormatTenth(value), "°C) is suitable for ", crop, ".">>

NitrogenPhrase(value, crop) ==
    IF value > 800
        THEN <<"High nitrogen content (", FormatWhole(value), ") supports vigorous ", crop, " growth.">>
    ELSE IF value > 400
        THEN <<"Moderate nitrogen (", FormatWhole(value), ") is adequate for ", crop, ".">>
    ELSE <<"Low nitrogen (", FormatWhole(value), ") matches ", crop, "'s nutrient needs.">>

PhosphorusPhrase(value, crop) ==
    IF value > 600
        THEN <<"High phosphorus (", FormatWhole(value), ") promotes strong ", crop, " root development.">>
    ELSE <<"Phosphorus level (", FormatWhole(value), ") is suitable for ", crop, ".">>

\* Mutant of PotassiumPhrase: the threshold is inclusive.
PotassiumPhraseInclusive(value, crop) ==
    IF value >= 400
        THEN <<"High potassium (", FormatWhole(value), ") enhances ", crop, " quality and disease resistance.">>
    ELSE <<"Potassium level (", FormatWhole(value), ") meets ", crop, "'s requirements.">>

PotassiumPhrase(value, crop) ==
    IF value > 400
        THEN <<"High potassium (", FormatWhole(value), ") enhances ", crop, " quality and disease resistance.">>
    ELSE <<"Potassium level (", FormatWhole(value), ") meets ", crop, "'s requirements.">>

PhPhrase(value, crop) ==
    IF 60 <= value /\ value <= 75
        THEN <<"Neutral pH (", FormatTenth(value), ") is ideal for ", crop, ".">>
    ELSE IF value < 60
        THEN <<"Acidic soil (pH ", FormatTenth(value), ") suits ", crop, " well.">>
    ELSE <<"Alkaline soil (pH ", FormatTenth(value), ") is appropriate for ", crop, ".">>

_get_feature_explanation(feature, value, crop) ==
    CASE feature = "rainfall" -> RainfallPhrase(value, crop)
      [] feature = "humidity" -> HumidityPhrase(value, crop)
      [] feature = "temperature" -> TemperaturePhrase(value, crop)
      [] feature = "N" -> NitrogenPhrase(value, crop)
      [] feature = "P" -> PhosphorusPhrase(value, crop)
      [] feature = "K" -> PotassiumPhrase(value, crop)
      [] feature = "pH" -> PhPhrase(value, crop)
      [] OTHER -> <<>>

\* The seven features, in the order of the feature array.
FeatureNames == <<"N", "P", "K", "pH", "temperature", "humidity", "rainfall">>

\* The names an importance map may hold: the seven features and a name that
\* is none of them.
ImportanceNames == FeatureNames \o <<"ph">>

\* The thresholds of the ladders, in tenths.
Thresholds == {60, 75, 200, 300, 400, 600, 800, 1000, 2000}
PhraseValues == {t + d : t \in Thresholds, d \in (0 - MaxDelta)..MaxDelta}
PhraseCrops == {"rice", "dragonfruit"}

InitPhrase ==
    /\ phrasePc = "call"
    /\ \E f \in {ImportanceNames[i] : i \in 1..Len(ImportanceNames)},
          v \in PhraseValues, c \in PhraseCrops :
          phraseIn = [feature |-> f, value |-> v, crop |-> c]
    /\ phraseOut = <<>>

IdlePhrase ==
    /\ phrasePc = "idle"
    /\ phraseIn = NoValue
    /\ phraseOut = <<>>

\* _get_feature_explanation(feature, value, crop)
GetFeatureExplanation ==
    /\ phrasePc = "call"
    /\ phraseOut' = _get_feature_explanation(phraseIn.feature, phraseIn.value,
                                             phraseIn.crop)
    /\ phrasePc' = "done"
    /\ UNCHANGED <<phraseIn, rankVars, soilVars, tableVars, explainVars, routeVars,
                   singletonVars, callVars>>

\* Mutant of SortedDescending: equal weights come out in reverse of their
\* original order (an ascending sort, reversed).
RECURSIVE SortedDescendingTiesReversed(_)
SortedDescendingTiesReversed(items) ==
    IF items = <<>> THEN <<>>
    ELSE LET rest == SortedDescendingTiesReversed(Tail(items))
             before == Cardinality({i \in 1..Len(rest) : rest[i][2] >= Head(items)[2]})
         IN  SubSeq(rest, 1, before) \o <<Head(items)>> \o SubSeq(rest, before + 1, Len(rest))

\* sorted(feature_importance.items(), key=lambda x: x[1], reverse=True): a
\* stable sort, so equal weights keep the order of the dict.  An item is a
\* pair <<name, weight>>.
RECURSIVE SortedDescending(_)
SortedDescending(items) ==
    IF items = <<>> THEN <<>>
    ELSE LET rest == SortedDescending(Tail(items))
             before == Cardinality({i \in 1..Len(rest) : rest[i][2] > Head(items)[2]})
         IN  SubSeq(rest, 1, before) \o <<Head(items)>> \o SubSeq(rest, before + 1, Len(rest))

\* seq[:3]
FirstThree(seq) == SubSeq(seq, 1, Min(3, Len(seq)))

\* " ".join(explanations)
RECURSIVE JoinWithSpace(_)
JoinWithSpace(strings) ==
    IF strings = <<>> THEN <<>>
    ELSE IF Len(strings) = 1 THEN strings[1]
    ELSE strings[1] \o <<" ">> \o JoinWithSpace(Tail(strings))

\* The loop of generate_human_readable_explanation: the phrases of the
\* selected features, those without a phrase skipped.
RECURSIVE Explanations(_, _, _)
Explanations(sorted_features, features, crop) ==
    IF sorted_features = <<>> THEN <<>>
    ELSE LET feature_name == Head(sorted_features)[1]
             value == Get(features, feature_name, 0)
             explanation == _get_feature_explanation(feature_name, value, crop)
         IN  (IF explanation # <<>> THEN <<explanation>> ELSE <<>>)
             \o Explanations(Tail(sorted_features), features, crop)

GenericExplanation(crop) ==
    <<crop, " is suitable for the given soil and climate conditions.">>

\* Mutant of generate_human_readable_explanation: the generic sentence is
\* returned as soon as one selected feature has no phrase.
GenerateGenericWhenAnyMissing(features, crop, feature_importance) ==
    LET sorted_features == FirstThree(SortedDescending(feature_importance))
        explanations == Explanations(sorted_features, features, crop)
    IN  IF explanations # <<>> /\ Len(explanations) = Len(sorted_features)
            THEN JoinWithSpace(explanations)
        ELSE GenericExplanation(crop)

generate_human_readable_explanation(features, crop, feature_importance) ==
    LET sorted_features == FirstThree(SortedDescending(feature_importance))
        explanations == Explanations(sorted_features, features, crop)
    IN  IF explanations # <<>> THEN JoinWithSpace(explanations)
        ELSE GenericExplanation(crop)

\* f"{importance * 100:.1f}%" of a weight in thousandths
ImportancePercent(importance) ==
    [whole |-> importance \div 10, tenth |-> importance % 10, suffix |-> "%"]

\* Mutant of _prepare_importance_chart: only the three most important
\* features are charted.
PrepareChartTopThree(feature_importance) ==
    LET sorted_features == FirstThree(SortedDescending(feature_importance)) IN
    [i \in 1..Len(sorted_features) |->
        [feature |-> sorted_features[i][1],
         importance |-> sorted_features[i][2],
         importance_percent |-> ImportancePercent(sorted_features[i][2])]]

_prepare_importance_chart(feature_importance) ==
    LET sorted_features == SortedDescending(feature_importance) IN
    [i \in 1..Len(sorted_features) |->
        [feature |-> sorted_features[i][1],
         importance |-> sorted_features[i][2],
         importance_percent |-> ImportancePercent(sorted_features[i][2])]]

\* Python's None, and the outcome of a call that an exception leaves.
None == [py |-> "None"]
Raised == [py |-> "raised"]
AttributionRaises == [raised |-> TRUE]

\* What self.explainer.shap_values(feature_array) does is outside this
\* program: it raises, or it returns contributions (one opaque number here).
Attributions == {AttributionRaises} \cup {[raised |-> FALSE, value |-> v] : v \in {0 - 1, 1}}

\* crop_shap_values: one contribution for each column of feature_array.
CropShapValues(attribution) == [i \in 1..Len(FeatureNames) |-> attribution.value]

\* {feature: float(shap_val) for feature, shap_val in
\*  zip(self.ml_service.feature_names, crop_shap_values)}: zip stops at the
\* shorter list, a name that comes twice keeps its last value.
ShapDict(feature_names, crop_shap_values) ==
    LET zipped == Min(Len(feature_names), Len(crop_shap_values)) IN
    [f \in {feature_names[i] : i \in 1..zipped} |->
        crop_shap_values[CHOOSE i \in 1..zipped :
                            /\ feature_names[i] = f
                            /\ \A j \in 1..zipped : feature_names[j] = f => j <= i]]

\* Mutant of _get_shap_values: the try / except is missing, the failure
\* leaves the method.
GetShapValuesUncaught(features, crop, labels, attribution, feature_names) ==
    IF \/ \E i \in 1..Len(FeatureNames) : FeatureNames[i] \notin DOMAIN features
       \/ attribution.raised
       \/ \A i \in 1..Len(labels) : labels[i] # crop
    THEN Raised
    ELSE [values |-> ShapDict(feature_names, CropShapValues(attribution)),
          base_value |-> attribution.value]

\* _get_shap_values: features[...] raises KeyError for an absent feature,
\* shap_values may raise, all_crops.index(crop) raises ValueError for a crop
\* that is no label; `except Exception` turns each into None.
_get_shap_values(features, crop, labels, attribution, feature_names) ==
    IF \/ \E i \in 1..Len(FeatureNames) : FeatureNames[i] \notin DOMAIN features
       \/ attribution.raised
       \/ \A i \in 1..Len(labels) : labels[i] # crop
    THEN None
    ELSE [values |-> ShapDict(feature_names, CropShapValues(attribution)),
          base_value |-> attribution.value]

\* shap_values = None; if self.explainer: shap_values = self._get_shap_values(...)
ShapValues(explainer, features, crop, labels, attribution, feature_names) ==
    IF explainer = "present"
        THEN _get_shap_values(features, crop, labels, attribution, feature_names)
        ELSE None

\* Mutant of ExplanationText: without attribution the generic sentence is
\* returned.
ExplanationTextNeedsShap(features, crop, feature_importance, shap_values) ==
    IF shap_values = None THEN GenericExplanation(crop)
    ELSE generate_human_readable_explanation(features, crop, feature_importance)

\* human_explanation = generate_human_readable_explanation(features, crop,
\* feature_importance): shap_values is in scope and not used.
ExplanationText(features, crop, feature_importance, shap_values) ==
    generate_human_readable_explanation(features, crop, feature_importance)

\* The dict explain_prediction returns; an exception that leaves
\* _get_shap_values leaves explain_prediction too.
ExplainResult(features, crop, feature_importance, shap_values) ==
    IF shap_values = Raised THEN Raised
    ELSE [crop |-> crop,
          explanation |-> ExplanationText(features, crop, feature_importance, shap_values),
          feature_importance |-> feature_importance,
          importance_chart |-> _prepare_importance_chart(feature_importance),
          shap_values |-> shap_values,
          features |-> features]

\* Importance maps: dicts in insertion order, as sequences of <<name, weight>>
\* pairs whose names follow the order of ImportanceNames.
RECURSIVE NameChoices(_, _)
NameChoices(from, count) ==
    IF count = 0 THEN {<<>>}
    ELSE IF from > Len(ImportanceNames) THEN {}
    ELSE {<<ImportanceNames[from]>> \o rest : rest \in NameChoices(from + 1, count - 1)}
         \cup NameChoices(from + 1, count)

ImportanceMaps ==
    UNION {{[i \in 1..k |-> <<names[i], weights[i]>>] :
                names \in NameChoices(1, k), weights \in [1..k -> 0..MaxWeight]} :
           k \in 0..MaxFeatures}

\* Feature vectors: every feature at a threshold; every feature just above
\* one, the whole-number formats on a tie; a dict without most features.
FeatureVectors ==
    {[N |-> 800, P |-> 600, K |-> 400, pH |-> 75, temperature |-> 300,
      humidity |-> 800, rainfall |-> 2000],
     [N |-> 805, P |-> 615, K |-> 405, pH |-> 76, temperature |-> 301,
      humidity |-> 605, rainfall |-> 1015],
     [N |-> 900]}

ExplainCrops == {"rice", "dragonfruit"}

\* get_feature_importance() is dict(zip(self.feature_names, importances)):
\* the names of the importance map are the pickled feature names.
InitExplain ==
    /\ explainPc = "call"
    /\ \E f \in FeatureVectors, c \in ExplainCrops, m \in ImportanceMaps,
          e \in {"absent", "present"} :
          explainIn = [features |-> f, crop |-> c,
                       feature_names |-> [i \in 1..Len(m) |-> m[i][1]],
                       feature_importance |-> m, explainer |-> e]
    /\ explainOut = NoValue

IdleExplain ==
    /\ explainPc = "idle"
    /\ explainIn = NoValue
    /\ explainOut = NoValue

\* ExplainerService.explain_prediction(features, crop)
ExplainPrediction ==
    /\ explainPc = "call"
    /\ \E attribution \in Attributions :
          explainOut' =
              ExplainResult(explainIn.features, explainIn.crop,
                            explainIn.feature_importance,
                            ShapValues(explainIn.explainer, explainIn.features,
                                       explainIn.crop, AllLabels, attribution,
                                       explainIn.feature_names))
    /\ explainPc' = "done"
    /\ UNCHANGED <<explainIn, rankVars, soilVars, tableVars, phraseVars, routeVars,
                   singletonVars, callVars>>

(***************************************************************************)
(* ----------------------------- Shared services ------------------------- *)
(* get_ml_service, get_explainer_service, get_ai_agronomist,               *)
(* get_sustainability_service: a module global, None until the first call, *)
(* and                                                                     *)
(*     if _x is None: _x = X()                                             *)
(*     return _x                                                           *)
(* MLService() loads the pickled files of backend/models and raises when   *)
(* they do not load; ExplainerService() calls get_ml_service() and catches *)
(* what SHAP raises; AIAgronomist() and SustainabilityService() raise      *)
(* nothing.                                                                *)
(***************************************************************************)
Services == {"ml", "explainer", "agronomist", "sustainability"}
Threads == 1..MaxThreads

\* What a process finds around it: pickles, whether joblib.load finds the
\* three model files; gemini, whether GEMINI_API_KEY is set and the Gemini
\* client imports and initialises.
Environments == [pickles : BOOLEAN, gemini : BOOLEAN]

\* The serial-th instance a service's constructor has made.
Instance(service, serial) == [service |-> service, serial |-> serial]

(***************************************************************************)
(* The getters step by step.  Request threads run them concurrently; a     *)
(* thread may be preempted between any two of the steps below.             *)
(***************************************************************************)
Frame(service, pc) == [service |-> service, pc |-> pc, made |-> None]

Top(t) == stack[t][Len(stack[t])]

\* The stack of thread t with its top frame replaced.
WithTop(t, frame) == [stack EXCEPT ![t][Len(stack[t])] = frame]

\* The frames an exception leaves when it goes out of the top frame: the
\* caller's frame, a constructor waiting for the call, has it in flight.
Unwound(frames) ==
    LET callers == SubSeq(frames, 1, Len(frames) - 1)
    IN  IF callers = <<>> THEN callers
        ELSE [callers EXCEPT ![Len(callers)].made = Raised]

InitSingletons ==
    /\ instance = [s \in Services |-> None]
    /\ constructed = [s \in Services |-> 0]
    /\ stack = [t \in Threads |-> <<>>]
    /\ returned = [t \in Threads |-> NoValue]
    /\ environment \in Environments

IdleSingletons ==
    /\ instance = NoValue
    /\ constructed = NoValue
    /\ stack = NoValue
    /\ returned = NoValue
    /\ environment = NoValue

\* A request thread calls one of the getters: its first call, or another
\* one after a call that raised.
Call(t, service) ==
    /\ stack[t] = <<>>
    /\ returned[t] = NoValue
    /\ stack' = [stack EXCEPT ![t] = <<Frame(service, "check")>>]
    /\ UNCHANGED <<instance, constructed, returned, environment>>

\* if _x is None:
CheckNone(t) ==
    /\ stack[t] # <<>>
    /\ Top(t).pc = "check"
    /\ stack' = WithTop(t, [Top(t) EXCEPT !.pc =
                    IF instance[Top(t).service] = None
                        THEN (IF Top(t).service = "explainer" THEN "init" ELSE "construct")
                        ELSE "return"])
    /\ UNCHANGED <<instance, constructed, returned, environment>>

\* ExplainerService.__init__: self.ml_service = get_ml_service()
CallNested(t) ==
    /\ stack[t] # <<>>
    /\ Top(t).pc = "init"
    /\ stack' = [stack EXCEPT ![t] =
                    Append(WithTop(t, [Top(t) EXCEPT !.pc = "construct"])[t],
                           Frame("ml", "check"))]
    /\ UNCHANGED <<instance, constructed, returned, environment>>

\* X() raises: MLService() when the files do not load, ExplainerService()
\* when its get_ml_service() raised.
ConstructorRaises(t) ==
    \/ Top(t).service = "ml" /\ ~environment.pickles
    \/ Top(t).made = Raised

\* X(): the constructor runs and yields a new instance.
Construct(t) ==
    /\ stack[t] # <<>>
    /\ Top(t).pc = "construct"
    /\ ~ConstructorRaises(t)
    /\ constructed' = [constructed EXCEPT ![Top(t).service] = @ + 1]
    /\ stack' = WithTop(t, [Top(t) EXCEPT
                    !.pc = "assign",
                    !.made = Instance(Top(t).service,
                                      constructed[Top(t).service] + 1)])
    /\ UNCHANGED <<instance, returned, environment>>

\* X() raises and the exception leaves the getter: nothing is assigned, the
\* global stays None and the caller gets no instance.
ConstructRaises(t) ==
    /\ stack[t] # <<>>
    /\ Top(t).pc = "construct"
    /\ ConstructorRaises(t)
    /\ stack' = [stack EXCEPT ![t] = Unwound(stack[t])]
    /\ UNCHANGED <<instance, constructed, returned, environment>>

\* _x = <the new instance>
Assign(t) ==
    /\ stack[t] # <<>>
    /\ Top(t).pc = "assign"
    /\ instance' = [instance EXCEPT ![Top(t).service] = Top(t).made]
    /\ stack' = WithTop(t, [Top(t) EXCEPT !.pc = "return"])
    /\ UNCHANGED <<constructed, returned, environment>>

\* return _x: the global is read again; the value goes to the caller, the
\* request thread or the constructor that called.
Return(t) ==
    /\ stack[t] # <<>>
    /\ Top(t).pc = "return"
    /\ stack' = [stack EXCEPT ![t] = SubSeq(stack[t], 1, Len(stack[t]) - 1)]
    /\ returned' = IF Len(stack[t]) = 1
                       THEN [returned EXCEPT ![t] = instance[Top(t).service]]
                       ELSE returned
    /\ UNCHANGED <<instance, constructed, environment>>

\* One step of the getter thread t is in.
GetterStep(t) ==
    \/ CheckNone(t)
    \/ CallNested(t)
    \/ Construct(t)
    \/ ConstructRaises(t)
    \/ Assign(t)
    \/ Return(t)

ThreadStep(t) ==
    \/ \E service \in Services : Call(t, service)
    \/ GetterStep(t)

(***************************************************************************)
(* ----------------------------- Routes ---------------------------------- *)
(* The routes of the blueprint: POST /predict, /explain, /ai-advice and    *)
(* /soil-impact, GET /health and /crops.  A JSON value is a record with    *)
(* its kind: a number, a string float() parses to a number ("numtext"), a  *)
(* string float() rejects ("text"), or null, which is Python's None.       *)
(* Numbers are in whole units, pH in tenths.  The server is threaded: each  *)
(* request is served by a thread of its own, which runs the view and, step *)
(* by step, the getters the view calls, and may be preempted between any   *)
(* two steps.  A view touches the module globals only through the getters. *)
(***************************************************************************)
Number(v) == [kind |-> "number", value |-> v]
NumericText(v) == [kind |-> "numtext", value |-> v]
Text(t) == [kind |-> "text", text |-> t]

Kind(value) == IF value = None THEN "null" ELSE value.kind

\* The characters of a JSON string: a numeric string is the decimal digits
\* of its number.
StringOf(value) ==
    IF Kind(value) = "text" THEN value.text ELSE ToString(value.value)

\* Config.FEATURE_RANGES, pH in tenths
FEATURE_RANGES ==
    [N |-> <<0, 140>>, P |-> <<5, 145>>, K |-> <<5, 205>>, pH |-> <<35, 95>>,
     temperature |-> <<8, 45>>, humidity |-> <<14, 100>>, rainfall |-> <<20, 300>>]

required_fields == <<"N", "P", "K", "pH", "temperature", "humidity", "rainfall">>

\* float(value) returns: a number, or a string that holds one.
IsFloat(value) == Kind(value) \in {"number", "numtext"}

\* Python's truth value of a JSON value: None, "" and 0 are false.
Truthy(value) ==
    CASE Kind(value) = "null" -> FALSE
      [] Kind(value) = "text" -> value.text # ""
      [] Kind(value) = "number" -> value.value # 0
      [] OTHER -> TRUE

\* sanitize_input: float(value) where it succeeds, the value itself otherwise
sanitize_input(data) ==
    [key \in DOMAIN data |->
        IF IsFloat(data[key]) THEN Number(data[key].value) ELSE data[key]]

InRange(field, value) ==
    FEATURE_RANGES[field][1] <= value /\ value <= FEATURE_RANGES[field][2]

\* The loop of validate_soil_climate_input from field i on: the first field
\* that is no number or is out of its range ends it.
RECURSIVE ValidateFields(_, _)
ValidateFields(data, i) ==
    IF i > Len(required_fields) THEN [is_valid |-> TRUE, error_msg |-> <<>>]
    ELSE LET field == required_fields[i] IN
         IF ~IsFloat(data[field])
             THEN [is_valid |-> FALSE, error_msg |-> <<"must be a number", field>>]
         ELSE IF ~InRange(field, data[field].value)
             THEN [is_valid |-> FALSE, error_msg |-> <<"must be between", field>>]
         ELSE ValidateFields(data, i + 1)

validate_soil_climate_input(data) ==
    IF \E i \in 1..Len(required_fields) : required_fields[i] \notin DOMAIN data
        THEN [is_valid |-> FALSE, error_msg |-> <<"Missing required fields">>]
    ELSE ValidateFields(data, 1)

\* `crop not in valid_crops` compares the JSON value with the labels: only
\* a string is equal to one.
validate_crop_name(crop, valid_crops) ==
    IF ~Truthy(crop)
        THEN [is_valid |-> FALSE, error_msg |-> <<"Crop name is required">>]
    ELSE IF ~(Kind(crop) \in {"text", "numtext"}
              /\ \E i \in 1..Len(valid_crops) : valid_crops[i] = StringOf(crop))
        THEN [is_valid |-> FALSE, error_msg |-> <<"Unknown crop">>]
    ELSE [is_valid |-> TRUE, error_msg |-> <<>>]

\* The response of a view (its status and body), whether the view called
\* its component (predict_top_crops, explain_prediction, get_farming_advice,
\* analyze_soil_impact) and whether that call raised.
Response(status, body, invoked, raised) ==
    [status |-> status, body |-> body, invoked |-> invoked, raised |-> raised]

\* return jsonify({'error': ...}), 400
Rejected(error) == Response(400, [error |-> error], FALSE, FALSE)

\* except Exception as e: return jsonify({'error': f'<prefix>: {str(e)}'}), 500
Failed(prefix, invoked) == Response(500, [error |-> <<prefix>>], invoked, invoked)

\* How a view goes on from a position: to its response, or into the call of
\* a getter whose result it assigns to a local.
Answers(response) == [pc |-> "done", response |-> response, calls |-> <<>>]
Calls(service, local) == [pc |-> local, response |-> NoValue, calls |-> <<service>>]

\* data without its 'crop' entry
WithoutCrop(data) == [key \in DOMAIN data \ {"crop"} |-> data[key]]

\* POST /predict from position pc: the body is validated, then
\* get_ml_service() is called; `raised` tells whether that call raised.
predict(data, pc, raised) ==
    IF pc = "request"
        THEN IF DOMAIN data = {} THEN Answers(Rejected(<<"No data provided">>))
             ELSE LET validation == validate_soil_climate_input(sanitize_input(data))
                  IN  IF ~validation.is_valid
                          THEN Answers(Rejected(validation.error_msg))
                      ELSE Calls("ml", "ml_service")
    ELSE IF raised THEN Answers(Failed("Prediction error", FALSE))
    ELSE Answers(Response(200, [success |-> TRUE, input |-> sanitize_input(data)],
                          TRUE, FALSE))

\* POST /explain from position pc: get_ml_service() is called as soon as
\* the body has a crop, before the crop and the fields are validated;
\* get_explainer_service() after the validation.
explain(data, pc, raised) ==
    IF pc = "request"
        THEN IF DOMAIN data = {} THEN Answers(Rejected(<<"No data provided">>))
             ELSE IF ~Truthy(Get(data, "crop", None))
                 THEN Answers(Rejected(<<"Crop name is required">>))
             ELSE Calls("ml", "ml_service")
    ELSE IF raised THEN Answers(Failed("Explanation error", FALSE))
    ELSE IF pc = "ml_service"
        THEN LET crop_check == validate_crop_name(Get(data, "crop", None), AllLabels)
                 validation ==
                     validate_soil_climate_input(sanitize_input(WithoutCrop(data)))
             IN  IF ~crop_check.is_valid THEN Answers(Rejected(crop_check.error_msg))
                 ELSE IF ~validation.is_valid
                     THEN Answers(Rejected(validation.error_msg))
                 ELSE Calls("explainer", "explainer_service")
    ELSE Answers(Response(200, [success |-> TRUE,
                                features |-> sanitize_input(WithoutCrop(data))],
                          TRUE, FALSE))

\* What get_farming_advice does with a configured client is outside this
\* program: generate_content returns a reply or raises, and the method
\* catches what it raises.
AdviceOutcomes == {"replied", "failed"}

\* POST /ai-advice from position pc: the fields are passed on as they are,
\* and every answer of the advisor is sent with status 200.
ai_advice(data, pc, env, outcome) ==
    IF pc = "request"
        THEN IF DOMAIN data = {} THEN Answers(Rejected(<<"No data provided">>))
             ELSE IF ~Truthy(Get(data, "crop", None))
                 THEN Answers(Rejected(<<"Crop name is required">>))
             ELSE Calls("agronomist", "ai_agronomist")
    ELSE IF ~env.gemini
        THEN Answers(Response(200, [success |-> FALSE,
                                    error |-> <<"AI Agronomist not available">>],
                              TRUE, FALSE))
    ELSE IF outcome = "failed"
        THEN Answers(Response(200, [success |-> FALSE,
                                    error |-> <<"AI Agronomist error">>],
                              TRUE, FALSE))
    ELSE Answers(Response(200, [success |-> TRUE, crop |-> Get(data, "crop", None)],
                          TRUE, FALSE))

\* analyze_soil_impact raises TypeError on a soil parameter that is no
\* number (None - int, str - int, 6.0 <= None) and AttributeError on a crop
\* without lower(), which every string has.
AnalyzerRaises(crop, soil_params) ==
    \/ Kind(crop) \notin {"text", "numtext"}
    \/ \E key \in DOMAIN soil_params : Kind(soil_params[key]) # "number"

\* POST /soil-impact from position pc: the five soil parameters are taken
\* with data.get (None when absent) and passed on as they are.
soil_impact(data, pc) ==
    IF pc = "request"
        THEN IF DOMAIN data = {} THEN Answers(Rejected(<<"No data provided">>))
             ELSE IF ~Truthy(Get(data, "crop", None))
                 THEN Answers(Rejected(<<"Crop name is required">>))
             ELSE Calls("sustainability", "sustainability_service")
    ELSE LET crop == Get(data, "crop", None)
             soil_params == [key \in SoilKeys |-> Get(data, key, None)]
             duration == Get(data, "duration_months", Number(4))
         IN  IF AnalyzerRaises(crop, soil_params)
                 THEN Answers(Failed("Sustainability analysis error", TRUE))
             ELSE Answers(Response(200,
                      [success |-> TRUE,
                       analysis |-> SoilImpactReport(
                           npkTable, waterTable, StringOf(crop),
                           [key \in SoilKeys |-> soil_params[key].value],
                           duration)],
                      TRUE, FALSE))

\* GET /health
health ==
    Answers(Response(200, [status |-> "healthy", service |-> "AgroMind AI",
                           version |-> "1.0.0"],
                     FALSE, FALSE))

\* GET /crops from position pc
get_crops(pc, raised) ==
    IF pc = "request" THEN Calls("ml", "ml_service")
    ELSE IF raised THEN Answers(Failed("Error fetching crops", FALSE))
    ELSE Answers(Response(200, [success |-> TRUE, crops |-> AllLabels,
                                count |-> Len(AllLabels)],
                          FALSE, FALSE))

PostRoutes == {"/predict", "/explain", "/ai-advice", "/soil-impact"}
GetRoutes == {"/health", "/crops"}

\* The request of the routes' documentation.
BaseFields ==
    [N |-> Number(90), P |-> Number(42), K |-> Number(43), pH |-> Number(65),
     temperature |-> Number(21), humidity |-> Number(82), rainfall |-> Number(202)]

FieldSet == {required_fields[i] : i \in 1..Len(required_fields)}

\* The values a field is posted with: at and past the ends of its range, as
\* a string, as null.
FieldValues(field) ==
    {Number(v) : v \in {FEATURE_RANGES[field][1], FEATURE_RANGES[field][2]}
                    \cup {FEATURE_RANGES[field][1] - d : d \in 1..MaxExcess}
                    \cup {FEATURE_RANGES[field][2] + d : d \in 1..MaxExcess}}
    \cup {NumericText(BaseFields[field].value), Text("abc"), None}

\* The documented request, with one field given another value or left out.
FieldMaps ==
    {BaseFields}
    \cup UNION {{[BaseFields EXCEPT ![field] = v] : v \in FieldValues(field)} :
                    field \in FieldSet}
    \cup {[f \in FieldSet \ {field} |-> BaseFields[f]] : field \in FieldSet}

Extended(data, key, value) ==
    [k \in DOMAIN data \cup {key} |-> IF k = key THEN value ELSE data[k]]

\* The crops posted with every field map: a label, an unknown name, the
\* empty string.
FieldCrops == {Text("rice"), Text("dragonfruit"), Text("")}

\* The crops posted with the documented fields: those, a label in capitals,
\* a name with a letter outside A..Z, a numeric string, a number.
RouteCrops ==
    FieldCrops \cup {Text("Rice"), Text("École"), NumericText(90), Number(90)}

\* The bodies posted: nothing, the field maps without a crop and with one,
\* the documented fields with each crop, without and with a duration.
RequestBodies ==
    {<<>>} \cup FieldMaps
    \cup {Extended(m, "crop", c) : m \in FieldMaps, c \in FieldCrops}
    \cup {Extended(BaseFields, "crop", c) : c \in RouteCrops}
    \cup {Extended(Extended(BaseFields, "crop", c), "duration_months", Number(6)) :
            c \in RouteCrops}

\* The requests: a POST route with a body, a GET route without one.
Requests ==
    {[route |-> r, data |-> d] : r \in PostRoutes, d \in RequestBodies}
    \cup {[route |-> r, data |-> <<>>] : r \in GetRoutes}

\* The requests served while another one is: the documented body with a
\* crop, on the routes that between them call every getter.
CompanionRequests ==
    {[route |-> r, data |-> Extended(BaseFields, "crop", Text("rice"))] :
        r \in {"/explain", "/ai-advice", "/soil-impact"}}

\* A new process, and one request per thread: any request on the first
\* thread, a companion request on each other one.
InitRoute ==
    /\ routePc = [t \in Threads |-> "request"]
    /\ \E first \in Requests, others \in [Threads \ {1} -> CompanionRequests] :
          routeIn = [t \in Threads |-> IF t = 1 THEN first ELSE others[t]]
    /\ routeOut = [t \in Threads |-> NoValue]
    /\ InitSingletons

IdleRoute ==
    /\ routePc = "idle"
    /\ routeIn = NoValue
    /\ routeOut = NoValue

\* The view of a request from position pc, up to its response or its next
\* getter call.
View(request, pc, raised, env, outcome) ==
    CASE request.route = "/predict" -> predict(request.data, pc, raised)
      [] request.route = "/explain" -> explain(request.data, pc, raised)
      [] request.route = "/ai-advice" -> ai_advice(request.data, pc, env, outcome)
      [] request.route = "/soil-impact" -> soil_impact(request.data, pc)
      [] request.route = "/health" -> health
      [] request.route = "/crops" -> get_crops(pc, raised)

\* The outcomes of the advisor's call a request may meet: only /ai-advice
\* calls the advisor.
OutcomesMet(request) ==
    IF request.route = "/ai-advice" THEN AdviceOutcomes ELSE {"replied"}

\* Thread t's view goes on: it has answered, or it is in the getter it
\* called, at that getter's first line.
Continued(t, next) ==
    /\ routePc' = [routePc EXCEPT ![t] = next.pc]
    /\ routeOut' = [routeOut EXCEPT ![t] = next.response]
    /\ stack' = [stack EXCEPT ![t] =
                    [i \in 1..Len(next.calls) |-> Frame(next.calls[i], "check")]]
    /\ returned' = IF next.calls = <<>> THEN returned
                   ELSE [returned EXCEPT ![t] = NoValue]

\* Thread t runs its view from the request, or from the point where the
\* getter it called has returned or has raised, to the view's response or
\* its next getter call.  A getter that left the stack without returning an
\* instance has raised.
ViewStep(t) ==
    /\ routePc[t] # "done"
    /\ stack[t] = <<>>
    /\ \E outcome \in OutcomesMet(routeIn[t]) :
          Continued(t, View(routeIn[t], routePc[t], returned[t] = NoValue,
                            environment, outcome))
    /\ UNCHANGED <<routeIn, instance, constructed, environment, rankVars,
                   soilVars, tableVars, phraseVars, explainVars, callVars>>

(***************************************************************************)
(* ----------------------------- Concurrent analyses --------------------- *)
(* Request threads call analyze_soil_impact on the one shared service, any *)
(* number of times each.  A call reads CROP_NPK_CONSUMPTION in             *)
(* _calculate_nutrient_depletion and CROP_WATER_NEEDS in                   *)
(* _calculate_water_risk; a thread may be preempted between these calls.   *)
(***************************************************************************)

\* Mutant of TableAfterGet: the lookup is a setdefault, it stores the default
\* under a key it does not find.
TableAfterSetdefault(table, key, default) ==
    IF key \in DOMAIN table THEN table
    ELSE [k \in DOMAIN table \cup {key} |-> IF k = key THEN default ELSE table[k]]

\* The dict after dict.get(key, default): get stores nothing.
TableAfterGet(table, key, default) == table

\* The calls the threads make: known crops, one in capitals, an unknown one.
CallCrops == {"rice", "Rice", "dragonfruit"}
CallParams ==
    {[N |-> n, P |-> 50, K |-> 50, pH |-> 65, rainfall |-> 100] :
        n \in {50 * k : k \in 1..MaxCallStep}}

NoLocals == [depletion |-> NoValue, water_risk |-> NoValue]

InitCalls ==
    /\ analysisPc = [t \in Threads |-> "idle"]
    /\ analysisIn = [t \in Threads |-> NoValue]
    /\ analysisLocals = [t \in Threads |-> NoLocals]
    /\ analysisOut = [t \in Threads |-> NoValue]

IdleCalls ==
    /\ analysisPc = NoValue
    /\ analysisIn = NoValue
    /\ analysisLocals = NoValue
    /\ analysisOut = NoValue

\* A thread enters analyze_soil_impact, for the first time or again.
BeginAnalysis(t) ==
    /\ analysisPc[t] \in {"idle", "returned"}
    /\ \E c \in CallCrops, sp \in CallParams :
          analysisIn' = [analysisIn EXCEPT ![t] = [crop |-> c, soil_params |-> sp]]
    /\ analysisPc' = [analysisPc EXCEPT ![t] = "depletion"]
    /\ analysisLocals' = [analysisLocals EXCEPT ![t] = NoLocals]
    /\ analysisOut' = [analysisOut EXCEPT ![t] = NoValue]
    /\ UNCHANGED tableVars

\* depletion = self._calculate_nutrient_depletion(crop_lower, soil_params)
StepDepletion(t) ==
    /\ analysisPc[t] = "depletion"
    /\ analysisLocals' = [analysisLocals EXCEPT ![t].depletion =
          _calculate_nutrient_depletion(npkTable, Lower(analysisIn[t].crop),
                                        analysisIn[t].soil_params)]
    /\ npkTable' = TableAfterGet(npkTable, Lower(analysisIn[t].crop),
                                 [N |-> 100, P |-> 50, K |-> 50])
    /\ analysisPc' = [analysisPc EXCEPT ![t] = "water_risk"]
    /\ UNCHANGED <<waterTable, analysisIn, analysisOut>>

\* water_risk = self._calculate_water_risk(crop_lower, soil_params.get('rainfall', 0))
StepWaterRisk(t) ==
    /\ analysisPc[t] = "water_risk"
    /\ analysisLocals' = [analysisLocals EXCEPT ![t].water_risk =
          _calculate_water_risk(waterTable, Lower(analysisIn[t].crop),
                                Get(analysisIn[t].soil_params, "rainfall", 0))]
    /\ waterTable' = TableAfterGet(waterTable, Lower(analysisIn[t].crop), 600)
    /\ analysisPc' = [analysisPc EXCEPT ![t] = "rotation"]
    /\ UNCHANGED <<npkTable, analysisIn, analysisOut>>

\* The rest of analyze_soil_impact, which reads the locals only: rotation,
\* score, recommendations, and the returned dict.
StepReturn(t) ==
    /\ analysisPc[t] = "rotation"
    /\ LET crop_lower == Lower(analysisIn[t].crop)
           depletion == analysisLocals[t].depletion
           water_risk == analysisLocals[t].water_risk
           rotation == _suggest_crop_rotation(crop_lower, depletion)
           sustainability_score ==
               _calculate_sustainability_score(depletion, water_risk,
                                               analysisIn[t].soil_params)
       IN  analysisOut' = [analysisOut EXCEPT ![t] =
              [crop |-> analysisIn[t].crop,
               sustainability_score |-> sustainability_score,
               nutrient_depletion |-> depletion,
               water_risk |-> water_risk,
               crop_rotation |-> rotation,
               recommendations |->
                  RecommendationsOrDefault(
                      _generate_recommendations(crop_lower, depletion, water_risk,
                                                sustainability_score))]]
    /\ analysisPc' = [analysisPc EXCEPT ![t] = "returned"]
    /\ UNCHANGED <<tableVars, analysisIn, analysisLocals>>

AnalysisStep(t) ==
    \/ BeginAnalysis(t)
    \/ StepDepletion(t)
    \/ StepWaterRisk(t)
    \/ StepReturn(t)

NextPhrase == GetFeatureExplanation

\* The caller of _get_feature_explanation alone.
InitPhraseOnly ==
    InitTables /\ IdleRank /\ IdleSoil /\ IdleExplain /\ IdleRoute /\ IdleSingletons /\ IdleCalls
    /\ InitPhrase

SpecPhrase == InitPhraseOnly /\ [][NextPhrase]_vars

NextExplain == ExplainPrediction

\* The caller of explain_prediction alone.
InitExplainOnly ==
    InitTables /\ IdleRank /\ IdleSoil /\ IdlePhrase /\ IdleRoute /\ IdleSingletons /\ IdleCalls
    /\ InitExplain

SpecExplain == InitExplainOnly /\ [][NextExplain]_vars

NextRoute ==
    \E t \in Threads :
        \/ ViewStep(t)
        \/ /\ GetterStep(t)
           /\ UNCHANGED <<rankVars, soilVars, tableVars, phraseVars, explainVars,
                          routeVars, callVars>>

\* The request threads of a new process alone.
InitRouteOnly ==
    InitTables /\ IdleRank /\ IdleSoil /\ IdlePhrase /\ IdleExplain /\ IdleCalls
    /\ InitRoute

SpecRoute == InitRouteOnly /\ [][NextRoute]_vars

NextSingleton ==
    \E t \in Threads :
        /\ ThreadStep(t)
        /\ UNCHANGED <<rankVars, soilVars, tableVars, phraseVars, explainVars,
                       routeVars, callVars>>

\* The request threads' first calls of the getters alone.
InitSingletonOnly ==
    InitTables /\ IdleRank /\ IdleSoil /\ IdlePhrase /\ IdleExplain /\ IdleRoute /\ IdleCalls
    /\ InitSingletons

SpecSingleton == InitSingletonOnly /\ [][NextSingleton]_vars

NextCalls ==
    \E t \in Threads :
        /\ AnalysisStep(t)
        /\ UNCHANGED <<rankVars, soilVars, phraseVars, explainVars, routeVars,
                       singletonVars>>

\* The threads' calls of analyze_soil_impact alone.
InitCallsOnly ==
    InitTables /\ IdleRank /\ IdleSoil /\ IdlePhrase /\ IdleExplain /\ IdleRoute
    /\ IdleSingletons /\ InitCalls

SpecCalls == InitCallsOnly /\ [][NextCalls]_vars

NextSoil == AnalyzeSoilImpact

\* The analyzer's caller alone: the ranker is idle.
InitSoilOnly ==
    InitTables /\ IdleRank /\ IdlePhrase /\ IdleExplain /\ IdleRoute /\ IdleSingletons /\ IdleCalls
    /\ InitSoil

SpecSoil == InitSoilOnly /\ [][NextSoil]_vars

NextRank == GetTopNPredictions

\* The ranker's caller alone: the analyzer is idle.
InitRankOnly ==
    InitTables /\ IdleSoil /\ IdlePhrase /\ IdleExplain /\ IdleRoute /\ IdleSingletons /\ IdleCalls
    /\ InitRank

SpecRank == InitRankOnly /\ [][NextRank]_vars


(***************************************************************************)
(* Properties of the ranker.                                               *)
(***************************************************************************)
RankLen == Len(rankIn.probabilities)
RankDone == rankPc = "done"
RankValidN == rankIn.n >= 1 /\ rankIn.n <= RankLen

\* The index in the input label list of a returned prediction's label
\* (the labels of a label encoder are distinct).
LabelIndex(crop) == CHOOSE i \in 1..Len(rankIn.labels) : rankIn.labels[i] = crop

NonIncreasing(out) ==
    \A i \in 1..Len(out) : i < Len(out) => out[i].confidence >= out[i + 1].confidence

\* C1: for a probability vector and label list of equal length L and
\* 1 <= n <= L, get_top_n_predictions returns exactly n predictions whose
\* confidences are non-increasing from first to last.
C1_ExactlyNSortedDescending ==
    (RankDone /\ RankValidN) =>
        /\ Len(rankOut) = rankIn.n
        /\ NonIncreasing(rankOut)

\* Witness of C1: a call with n = 2 of 3 labels returned two predictions of
\* different confidence.
C1_Witness ==
    /\ RankDone
    /\ RankLen = 3
    /\ rankIn.n = 2
    /\ Len(rankOut) = 2
    /\ rankOut[1].confidence > rankOut[2].confidence

\* C2: whenever two returned predictions have equal confidence the one whose
\* label has the lower index in the input label list comes first, and when a
\* tie at the cut-off decides which labels are returned the lower-index
\* label is the one kept.
C2_TiesLowestIndexFirst ==
    (RankDone /\ RankValidN) =>
        /\ \A i, j \in 1..Len(rankOut) :
              (i < j /\ rankOut[i].confidence = rankOut[j].confidence)
                  => LabelIndex(rankOut[i].crop) < LabelIndex(rankOut[j].crop)
        /\ \A k \in 1..RankLen :
              (\A i \in 1..Len(rankOut) : rankOut[i].crop # rankIn.labels[k])
                  => \A i \in 1..Len(rankOut) :
                        rankOut[i].confidence = rankIn.probabilities[k]
                            => LabelIndex(rankOut[i].crop) < k

Clamp(x, lo, hi) == Max(lo, Min(hi, x))

\* C3: called with n outside [1, L], get_top_n_predictions returns exactly
\* clamp(n, 1, L) predictions: L for n > L and 1 for n <= 0.
C3_ClampsCount ==
    (RankDone /\ ~RankValidN) => Len(rankOut) = Clamp(rankIn.n, 1, RankLen)


(***************************************************************************)
(* Properties of the sustainability analyzer.                              *)
(***************************************************************************)
SoilDone == soilPc = "done"
Nutrients == {"N", "P", "K"}
CurrentNutrient(x) == Get(soilIn.soil_params, x, 50)
CurrentRainfall == Get(soilIn.soil_params, "rainfall", 0)
CurrentPh == Get(soilIn.soil_params, "pH", 70)
Reported == report.nutrient_depletion
ReportedPercent(x) == Reported.depletion_percent[x]

\* The average of the three depletion percentages as reported (capped).
ReportedAverage ==
    FlDivSmall(FlAdd(FlAdd(ReportedPercent("N"), ReportedPercent("P")),
                     ReportedPercent("K")), 3)

\* C4: for every crop and every current N, P, K, including 0 and negative
\* values, each reported depletion_percent lies in [0, 100] and each
\* remaining value is max(0, current - consumption), hence >= 0.
C4_DepletionBounded ==
    SoilDone =>
        \A x \in Nutrients :
            /\ FlGe(ReportedPercent(x), FlFromInt(0))
            /\ FlGe(FlFromInt(100), ReportedPercent(x))
            /\ Reported.remaining[x] =
                  (IF CurrentNutrient(x) - Reported.consumption[x] > 0
                      THEN CurrentNutrient(x) - Reported.consumption[x] ELSE 0)
            /\ Reported.remaining[x] >= 0

\* Witness of C4: a report for a negative current N and a zero current P,
\* both reported as 100 percent depleted with nothing remaining.
C4_Witness ==
    /\ SoilDone
    /\ CurrentNutrient("N") < 0
    /\ CurrentNutrient("P") = 0
    /\ ReportedPercent("N") = FlFromInt(100)
    /\ ReportedPercent("P") = FlFromInt(100)
    /\ Reported.remaining.N = 0

\* C5: severity is the bucket of the average of the three reported (capped at
\* 100) depletion_percent values: 'severe' iff the average > 70, 'high' iff in
\* (50, 70], 'moderate' iff in (30, 50], 'low' otherwise.
C5_SeverityOfCappedAverage ==
    SoilDone =>
        Reported.severity =
            (IF FlGt(ReportedAverage, FlFromInt(70)) THEN "severe"
             ELSE IF FlGt(ReportedAverage, FlFromInt(50)) THEN "high"
             ELSE IF FlGt(ReportedAverage, FlFromInt(30)) THEN "moderate"
             ELSE "low")

\* C6: available_water = rainfall * 4, deficit = max(0, water_need -
\* available_water), surplus = max(0, available_water - water_need), and
\* risk_level is 'high' if deficit > 400, else 'medium' if deficit > 200, else
\* 'medium' if surplus > 400, else 'low'.
C6_WaterRiskLadder ==
    SoilDone =>
        LET w == report.water_risk IN
        /\ w.available_water = CurrentRainfall * 4
        /\ w.deficit = (IF w.water_need > w.available_water
                           THEN w.water_need - w.available_water ELSE 0)
        /\ w.surplus = (IF w.available_water > w.water_need
                           THEN w.available_water - w.water_need ELSE 0)
        /\ w.risk_level =
              (CASE w.deficit > 400 -> "high"
                 [] w.deficit <= 400 /\ w.deficit > 200 -> "medium"
                 [] w.deficit <= 200 /\ w.surplus > 400 -> "medium"
                 [] OTHER -> "low")

\* Witness of C6: a deficit of exactly 400 reported as 'medium'.
C6_Witness ==
    /\ SoilDone
    /\ report.water_risk.deficit = 400
    /\ report.water_risk.risk_level = "medium"

\* C7: for every crop and every N, P, K, pH and rainfall, including nutrients
\* equal to 0 and rainfall 0 or very large, sustainability_score is an
\* integer in [0, 100].
C7_ScoreInRange ==
    SoilDone => report.sustainability_score \in 0..100

\* The score as the specification computes it, from the report's own fields:
\* 100 - 0.3 * average capped depletion - water penalty + pH bonus, a float,
\* before clamping and truncation.
SpecifiedRawScore ==
    LET penalty == CASE report.water_risk.risk_level = "high" -> 20
                     [] report.water_risk.risk_level = "medium" -> 10
                     [] OTHER -> 0
        bonus == IF CurrentPh >= 60 /\ CurrentPh <= 75 THEN 5 ELSE 0
        deducted == FlSub(FlFromInt(100), FlMul(ReportedAverage, ThreeTenths))
    IN  FlAdd(FlSub(deducted, FlFromInt(penalty)), FlFromInt(bonus))

\* Witness of C7: nutrients far above the crop's consumption, adequate water
\* and a neutral pH push the unclamped score above 100; the report says 100.
C7_Witness ==
    /\ SoilDone
    /\ FlGt(SpecifiedRawScore, FlFromInt(101))
    /\ report.sustainability_score = 100

\* C8: the score is 100 - 0.3 * (average of the capped depletion
\* percentages) - (20 if risk 'high', 10 if 'medium') + (5 if 6.0 <= pH <=
\* 7.5), clamped to [0, 100] and then truncated toward zero; the code's
\* truncate-then-clamp gives this same integer.
C8_ScoreFormula ==
    SoilDone =>
        LET raw == SpecifiedRawScore
            clamped == IF FlGt(FlFromInt(0), raw) THEN FlFromInt(0)
                       ELSE IF FlGt(raw, FlFromInt(100)) THEN FlFromInt(100)
                       ELSE raw
        IN  report.sustainability_score = FlTrunc(clamped)

\* Witness of C8: pH exactly 7.5 earns the bonus, the risk is 'medium' and
\* the unclamped score is not a whole number, so truncation acts.
C8_Witness ==
    /\ SoilDone
    /\ CurrentPh = 75
    /\ report.water_risk.risk_level = "medium"
    /\ FlLess(FlFromInt(report.sustainability_score), SpecifiedRawScore)

\* C9: the rotation suggestions are, in this order, the nitrogen-fixer entry
\* iff N depletion_percent > 60, the light-feeder entry iff the average capped
\* depletion_percent > 50, the fallow entry iff severity = 'severe'; and the
\* single 'Soil health is good' entry iff none of the three holds.
C9_RotationSuggestions ==
    SoilDone =>
        LET nitrogen == FlGt(ReportedPercent("N"), FlFromInt(60))
            light == FlGt(ReportedAverage, FlFromInt(50))
            fallow == Reported.severity = "severe"
            expected == (IF nitrogen THEN <<"High nitrogen depletion">> ELSE <<>>)
                        \o (IF light THEN <<"Overall nutrient depletion">> ELSE <<>>)
                        \o (IF fallow THEN <<"Severe soil depletion">> ELSE <<>>)
            got == report.crop_rotation.suggestions
            reasons == [i \in 1..Len(got) |-> got[i].reason]
        IN  /\ (nitrogen \/ light \/ fallow) => reasons = expected
            /\ (reasons = <<"Soil health is good">>) <=> ~(nitrogen \/ light \/ fallow)

\* Witness of C9: all three conditions hold and the three entries are listed
\* in the stated order.
C9_Witness ==
    /\ SoilDone
    /\ report.crop_rotation.suggestions =
          <<NitrogenFixerEntry, LightFeederEntry, FallowEntry>>

\* C10: crop_rotation.suggestions of the report is never empty.
C10_SuggestionsNonEmpty ==
    SoilDone => Len(report.crop_rotation.suggestions) >= 1

\* Witness of C10: no rotation condition matched and the list holds the
\* single 'Soil health is good' entry.
C10_Witness ==
    /\ SoilDone
    /\ ~FlGt(ReportedPercent("N"), FlFromInt(60))
    /\ ~FlGt(ReportedAverage, FlFromInt(50))
    /\ Reported.severity # "severe"
    /\ report.crop_rotation.suggestions = <<SoilHealthGoodEntry>>


(***************************************************************************)
(* Properties of the recommendations, the default profile and the          *)
(* duration parameter.                                                     *)
(***************************************************************************)
AdviceN == "Apply nitrogen-rich fertilizers or compost before next planting"
AdviceP == "Add phosphate fertilizers to restore phosphorus levels"
AdviceK == "Use potash or wood ash to replenish potassium"
AdviceDrip == "Install drip irrigation system to conserve water"
AdviceMulch == "Use mulching to reduce water evaporation"
AdviceDrainage == "Ensure proper drainage to prevent waterlogging"
AdviceRotation == "Consider crop rotation to improve soil health"
AdviceOrganic == "Add organic matter to enhance soil structure"
AdviceMaintain == "Maintain current sustainable practices"

Listed(advice) ==
    \E i \in 1..Len(report.recommendations) : report.recommendations[i] = advice

\* Every condition of the recommendations evaluated on its own, from the
\* report's fields, in the fixed order.
IndependentRecommendations ==
    (IF FlGt(ReportedPercent("N"), FlFromInt(50)) THEN <<AdviceN>> ELSE <<>>)
    \o (IF FlGt(ReportedPercent("P"), FlFromInt(50)) THEN <<AdviceP>> ELSE <<>>)
    \o (IF FlGt(ReportedPercent("K"), FlFromInt(50)) THEN <<AdviceK>> ELSE <<>>)
    \o (IF report.water_risk.risk_level = "high"
           THEN <<AdviceDrip, AdviceMulch>> ELSE <<>>)
    \o (IF report.water_risk.surplus > 300 THEN <<AdviceDrainage>> ELSE <<>>)
    \o (IF report.sustainability_score < 60
           THEN <<AdviceRotation, AdviceOrganic>> ELSE <<>>)

\* C11: the recommendations are built in the order N, P, K advice, drip then
\* mulching, drainage, rotation then organic matter, each condition evaluated
\* independently: drainage advice is listed whenever the surplus is > 300
\* whatever the risk level, and drip and mulching advice iff the risk is 'high'.
C11_RecommendationsIndependent ==
    SoilDone =>
        /\ IndependentRecommendations # <<>>
              => report.recommendations = IndependentRecommendations
        /\ Listed(AdviceDrainage) <=> report.water_risk.surplus > 300
        /\ Listed(AdviceDrip) <=> report.water_risk.risk_level = "high"
        /\ Listed(AdviceMulch) <=> report.water_risk.risk_level = "high"

\* Witness of C11: a surplus between 300 and 400 with nitrogen advice: the
\* drainage advice follows the nutrient advice.
C11_Witness ==
    /\ SoilDone
    /\ report.water_risk.surplus > 300
    /\ report.water_risk.surplus <= 400
    /\ Listed(AdviceN)
    /\ Listed(AdviceDrainage)

\* C12: the recommendations list is never empty, and it is the single
\* 'Maintain current sustainable practices' entry iff no other condition
\* matched.
C12_RecommendationsNonEmpty ==
    SoilDone =>
        /\ Len(report.recommendations) >= 1
        /\ (report.recommendations = <<AdviceMaintain>>)
              <=> ~ \/ FlGt(ReportedPercent("N"), FlFromInt(50))
                    \/ FlGt(ReportedPercent("P"), FlFromInt(50))
                    \/ FlGt(ReportedPercent("K"), FlFromInt(50))
                    \/ report.water_risk.risk_level = "high"
                    \/ report.water_risk.surplus > 300
                    \/ report.sustainability_score < 60

\* Witness of C12: no condition matched and the list is the single
\* 'Maintain' entry.
C12_Witness ==
    /\ SoilDone
    /\ report.water_risk.risk_level = "low"
    /\ report.sustainability_score >= 60
    /\ report.recommendations = <<AdviceMaintain>>

\* The tables with a profile added for a crop.
WithProfile(table, crop, profile) ==
    [c \in DOMAIN table \cup {crop} |-> IF c = crop THEN profile ELSE table[c]]

UnknownCrop == Lower(soilIn.crop) \notin DOMAIN npkTable

\* C13: for a crop name that is no key of the profile tables the analysis
\* does not fail and the report is the one of a crop whose profile is
\* consumption N=100, P=50, K=50 and water need 600.
C13_UnknownCropDefaultProfile ==
    (SoilDone /\ UnknownCrop) =>
        report = SoilImpactReport(
                    WithProfile(npkTable, Lower(soilIn.crop),
                                [N |-> 100, P |-> 50, K |-> 50]),
                    WithProfile(waterTable, Lower(soilIn.crop), 600),
                    soilIn.crop, soilIn.soil_params, soilIn.duration_months)

\* Witness of C13: an unknown crop with current N = 50 is reported with an N
\* depletion_percent of 100 and a water need of 600.
C13_Witness ==
    /\ SoilDone
    /\ UnknownCrop
    /\ "N" \in DOMAIN soilIn.soil_params
    /\ soilIn.soil_params.N = 50
    /\ ReportedPercent("N") = FlFromInt(100)
    /\ report.water_risk.water_need = 600

\* C15: the report does not depend on duration_months: the report of the same
\* crop and soil_params under any other duration is the same report, and
\* available_water is rainfall * 4.
C15_DurationIgnored ==
    SoilDone =>
        /\ \A d \in DurationLevels \ {soilIn.duration_months} :
              report = SoilImpactReport(npkTable, waterTable, soilIn.crop,
                                        soilIn.soil_params, d)
        /\ report.water_risk.available_water = CurrentRainfall * 4

\* Witness of C15: a call with a duration other than the default 4 and a
\* positive rainfall.
C15_Witness ==
    /\ SoilDone
    /\ soilIn.duration_months # 4
    /\ CurrentRainfall > 0
    /\ report.water_risk.available_water = CurrentRainfall * 4

(***************************************************************************)
(* Claims about the feature phrases and the explanation.                   *)
(***************************************************************************)
PhraseDone == phrasePc = "done"

KnownFeature(name) == \E i \in 1..Len(FeatureNames) : FeatureNames[i] = name

\* The ladder table: the opening words of the phrase of a feature's bucket,
\* the value in tenths.
LadderOpening(feature, value) ==
    CASE feature = "rainfall" ->
            (IF value > 2000 THEN "High rainfall ("
             ELSE IF value > 1000 THEN "Moderate rainfall ("
             ELSE "Low rainfall (")
      [] feature = "humidity" ->
            (IF value > 800 THEN "High humidity ("
             ELSE IF value > 600 THEN "Moderate humidity ("
             ELSE "Low humidity (")
      [] feature = "temperature" ->
            (IF value > 300 THEN "Warm temperature ("
             ELSE IF value > 200 THEN "Moderate temperature ("
             ELSE "Cool temperature (")
      [] feature = "N" ->
            (IF value > 800 THEN "High nitrogen content ("
             ELSE IF value > 400 THEN "Moderate nitrogen ("
             ELSE "Low nitrogen (")
      [] feature = "P" ->
            (IF value > 600 THEN "High phosphorus (" ELSE "Phosphorus level (")
      [] feature = "K" ->
            (IF value > 400 THEN "High potassium (" ELSE "Potassium level (")
      [] feature = "pH" ->
            (IF value < 60 THEN "Acidic soil (pH "
             ELSE IF value > 75 THEN "Alkaline soil (pH "
             ELSE "Neutral pH (")

\* C17: for each of the seven features the phrase is the one of the bucket
\* the ladder table gives with strict '>' thresholds (pH neutral iff
\* 6.0 <= pH <= 7.5, acidic below, alkaline above): a value exactly at a
\* threshold falls in the lower bucket.
C17_StrictLadders ==
    (PhraseDone /\ KnownFeature(phraseIn.feature)) =>
        /\ phraseOut # <<>>
        /\ phraseOut[1] = LadderOpening(phraseIn.feature, phraseIn.value)
        /\ (phraseIn.feature = "rainfall" /\ phraseIn.value = 2000)
              => phraseOut[1] = "Moderate rainfall ("
        /\ (phraseIn.feature = "N" /\ phraseIn.value = 800)
              => phraseOut[1] = "Moderate nitrogen ("
        /\ (phraseIn.feature = "K" /\ phraseIn.value = 400)
              => phraseOut[1] = "Potassium level ("

\* Witness of C17: potassium exactly at 40 gets the phrase of the lower
\* bucket.
C17_Witness ==
    /\ PhraseDone
    /\ phraseIn.feature = "K"
    /\ phraseIn.value = 400
    /\ phraseOut[1] = "Potassium level ("

ExplainDone == explainPc = "done" /\ explainOut # Raised

\* The place of entry i of an importance map in the selection: one more than
\* the number of entries that go before it, those of a greater weight and
\* those of the same weight that stand earlier in the map.
ImportanceRank(items, i) ==
    1 + Cardinality({j \in 1..Len(items) :
                        \/ items[j][2] > items[i][2]
                        \/ items[j][2] = items[i][2] /\ j < i})

\* The entry at place r of the selection.
SelectedAt(items, r) ==
    items[CHOOSE i \in 1..Len(items) : ImportanceRank(items, i) = r]

\* The phrases of the min(3, k) selected features, in the selection's order;
\* a feature without a value is given the value 0.
SelectedPhrases ==
    [r \in 1..Min(3, Len(explainIn.feature_importance)) |->
        LET name == SelectedAt(explainIn.feature_importance, r)[1]
        IN  _get_feature_explanation(name, Get(explainIn.features, name, 0),
                                     explainIn.crop)]

NonEmpty(string) == string # <<>>

\* The number of phrases of an explanation: none in the generic sentence,
\* else one more than the single spaces that join them.
PhraseCount(text) ==
    IF text = GenericExplanation(explainIn.crop) THEN 0
    ELSE 1 + Cardinality({i \in 1..Len(text) : text[i] = " "})

AllSelectedKnown ==
    \A r \in 1..Min(3, Len(explainIn.feature_importance)) :
        KnownFeature(SelectedAt(explainIn.feature_importance, r)[1])

\* C16 as stated: the explanation is made of exactly min(3, k) phrases,
\* k the number of entries of the importance map.
C16_ExactlyKPhrases ==
    ExplainDone =>
        PhraseCount(explainOut.explanation)
            = Min(3, Len(explainIn.feature_importance))

\* C16, amended: the explanation is made of the phrases of the min(3, k)
\* entries of the highest importance (equal weights in the map's order),
\* joined by single spaces in importance-descending order, one phrase for
\* each selected name that is one of the seven features: exactly min(3, k)
\* phrases when all selected names are, and the generic sentence when none
\* is.
C16_TopThreePhrases ==
    ExplainDone =>
        LET phrases == SelectSeq(SelectedPhrases, NonEmpty)
        IN  /\ explainOut.explanation =
                  (IF phrases = <<>> THEN GenericExplanation(explainIn.crop)
                   ELSE JoinWithSpace(phrases))
            /\ Len(phrases) =
                  Cardinality({r \in 1..Min(3, Len(explainIn.feature_importance)) :
                      KnownFeature(SelectedAt(explainIn.feature_importance, r)[1])})
            /\ PhraseCount(explainOut.explanation) = Len(phrases)
            /\ AllSelectedKnown =>
                  PhraseCount(explainOut.explanation)
                      = Min(3, Len(explainIn.feature_importance))

\* Witness of C16: four features of equal weight: the explanation is the
\* phrases of the first three of the map, in the map's order.
C16_Witness ==
    /\ ExplainDone
    /\ Len(explainIn.feature_importance) = 4
    /\ \A i \in 1..4 :
          /\ explainIn.feature_importance[i][2] = explainIn.feature_importance[1][2]
          /\ KnownFeature(explainIn.feature_importance[i][1])
          /\ explainIn.feature_importance[i][1] \in DOMAIN explainIn.features
    /\ explainOut.explanation =
          JoinWithSpace([i \in 1..3 |->
              _get_feature_explanation(
                  explainIn.feature_importance[i][1],
                  explainIn.features[explainIn.feature_importance[i][1]],
                  explainIn.crop)])
    /\ PhraseCount(explainOut.explanation) = 3

ExplainReturned == explainPc = "done"

CropIsLabel == \E i \in 1..Len(AllLabels) : AllLabels[i] = explainIn.crop

FeaturesComplete ==
    \A i \in 1..Len(FeatureNames) : FeatureNames[i] \in DOMAIN explainIn.features

\* C18: the explanation text is a function of features, crop and global
\* importance only: it is the narrative of these three, and the call returns
\* the same text whether the attribution mechanism is present or absent and
\* whatever the attribution does (returns values or raises).
C18_TextIndependentOfAttribution ==
    ExplainReturned =>
        /\ explainOut # Raised
        /\ explainOut.explanation =
              generate_human_readable_explanation(
                  explainIn.features, explainIn.crop, explainIn.feature_importance)
        /\ \A explainer \in {"absent", "present"}, attribution \in Attributions :
              LET other == ExplainResult(
                              explainIn.features, explainIn.crop,
                              explainIn.feature_importance,
                              ShapValues(explainer, explainIn.features,
                                         explainIn.crop, AllLabels, attribution,
                                         explainIn.feature_names))
              IN  /\ other # Raised
                  /\ other.explanation = explainOut.explanation

\* Witness of C18: the mechanism is present, the crop is a label and every
\* feature is given, yet no attribution came back (the computation raised);
\* the text is the three phrases of the features all the same.
C18_Witness ==
    /\ ExplainReturned
    /\ explainOut # Raised
    /\ explainIn.explainer = "present"
    /\ CropIsLabel
    /\ FeaturesComplete
    /\ explainOut.shap_values = None
    /\ PhraseCount(explainOut.explanation) = 3

\* C19: explain_prediction never propagates a failure of the attribution:
\* when the mechanism is absent, or the computation raises (a crop that is no
\* label and a feature that is not given among the causes), the result has
\* shap_values null and its explanation, feature_importance and
\* importance_chart are those of the global importance.
C19_AttributionFailureCaptured ==
    ExplainReturned =>
        /\ explainOut # Raised
        /\ (explainIn.explainer = "absent" \/ ~CropIsLabel \/ ~FeaturesComplete)
              => explainOut.shap_values = None
        /\ explainOut.shap_values # None
              => explainIn.explainer = "present" /\ CropIsLabel /\ FeaturesComplete
        /\ explainOut.explanation # <<>>
        /\ explainOut.feature_importance = explainIn.feature_importance
        /\ Len(explainOut.importance_chart) = Len(explainIn.feature_importance)
        /\ \A i \in 1..Len(explainOut.importance_chart) :
              \E j \in 1..Len(explainIn.feature_importance) :
                  /\ explainOut.importance_chart[i].feature
                        = explainIn.feature_importance[j][1]
                  /\ explainOut.importance_chart[i].importance
                        = explainIn.feature_importance[j][2]

\* Witness of C19: the mechanism is present and the crop is no label of the
\* model: the result has null shap_values and a chart of four entries.
C19_Witness ==
    /\ ExplainReturned
    /\ explainOut # Raised
    /\ explainIn.explainer = "present"
    /\ ~CropIsLabel
    /\ explainOut.shap_values = None
    /\ Len(explainOut.importance_chart) = 4
    /\ explainOut.explanation # <<>>

(***************************************************************************)
(* Claims about the routes and the shared services.                        *)
(***************************************************************************)
RouteDone(t) == routePc[t] = "done"

\* The routes the reasoning components stand behind.
ComponentRoutes == {"/predict", "/explain", "/soil-impact"}

\* The numeric fields a route requires.
RequiredNumeric(route) == IF route = "/soil-impact" THEN SoilKeys ELSE FieldSet

\* A field that is absent, no number, or outside its range.
BadField(data, field) ==
    \/ field \notin DOMAIN data
    \/ ~IsFloat(data[field])
    \/ ~InRange(field, data[field].value)

BadRequest(t) ==
    /\ routeIn[t].route \in ComponentRoutes
    /\ \E field \in RequiredNumeric(routeIn[t].route) :
          BadField(routeIn[t].data, field)

\* C14: a request to /soil-impact, /predict or /explain in which a required
\* numeric field is absent, non-numeric or outside its range is answered
\* with 400, the component is not invoked, and no component raises.
C14_BadInputRejected ==
    \A t \in Threads :
        (RouteDone(t) /\ BadRequest(t)) =>
            /\ routeOut[t].status = 400
            /\ ~routeOut[t].invoked
            /\ ~routeOut[t].raised

\* The statement of C14 for /soil-impact alone: refuted as well, by a
\* request without rainfall (the analyzer is invoked and raises, 500) and by
\* one with N = 141 (the analyzer is invoked, 200).
SoilImpactRejects ==
    \A t \in Threads :
        (RouteDone(t) /\ BadRequest(t) /\ routeIn[t].route = "/soil-impact") =>
            /\ routeOut[t].status = 400
            /\ ~routeOut[t].invoked
            /\ ~routeOut[t].raised

\* /predict and /explain never call their component on such a request.
\* /predict rejects it with 400; /explain rejects it with 400 unless its
\* get_ml_service(), called before the validation, raised: then a request
\* with a crop is answered with 500.  This holds whatever the other
\* threads do meanwhile.
ValidatingRoutesReject ==
    \A t \in Threads :
        (RouteDone(t) /\ BadRequest(t) /\ routeIn[t].route # "/soil-impact") =>
            /\ ~routeOut[t].invoked
            /\ ~routeOut[t].raised
            /\ routeOut[t].status \in {400, 500}
            /\ routeOut[t].status = 500 <=>
                  /\ routeIn[t].route = "/explain"
                  /\ Truthy(Get(routeIn[t].data, "crop", None))
                  /\ ~environment.pickles

\* /soil-impact with a crop: the analyzer is always called; it raises and
\* the answer is 500 when a parameter is no number or the crop is no
\* string, and an out-of-range number is analysed and answered with 200.
SoilImpactUnvalidated ==
    \A t \in Threads :
        (RouteDone(t) /\ routeIn[t].route = "/soil-impact"
                     /\ routeOut[t].status # 400) =>
            /\ routeOut[t].invoked
            /\ routeOut[t].raised <=> routeOut[t].status = 500
            /\ routeOut[t].raised <=>
                  \/ Kind(routeIn[t].data["crop"]) = "number"
                  \/ \E field \in SoilKeys :
                        \/ field \notin DOMAIN routeIn[t].data
                        \/ Kind(routeIn[t].data[field]) # "number"

\* A global holds an instance only after its constructor has made one, the
\* explainer is never constructed without the ML service, and nothing is
\* constructed from model files that do not load.
GettersSetGlobals ==
    /\ \A s \in Services : instance[s] # None => constructed[s] >= 1
    /\ constructed["explainer"] >= 1 => constructed["ml"] >= 1
    /\ ~environment.pickles =>
          constructed["ml"] = 0 /\ constructed["explainer"] = 0

\* Two requests served at the same time have both constructed the ML
\* service.
ConstructedTwice ==
    /\ \A t \in Threads : RouteDone(t)
    /\ constructed["ml"] = 2

\* The getters the claim names.
NamedServices == {"explainer", "ml", "sustainability"}

\* The constructor of each of these services has made at most one instance.
ConstructedOnce == \A service \in NamedServices : constructed[service] <= 1

\* The callers of one of these getters have received the same instance.
SameInstance ==
    \A t1 \in Threads, t2 \in Threads :
        (/\ returned[t1] # NoValue
         /\ returned[t2] # NoValue
         /\ returned[t1].service \in NamedServices
         /\ returned[t1].service = returned[t2].service)
            => returned[t1] = returned[t2]

\* C20: under any interleaving of the threads' first calls, the constructor
\* of each service runs at most once and the callers of one getter receive
\* the same instance.
C20_InitialisedOnce == ConstructedOnce /\ SameInstance


(***************************************************************************)
(* Claims about the shared tables.                                         *)
(***************************************************************************)

\* C21: after any sequence and any interleaving of analyze_soil_impact
\* calls the shared tables CROP_NPK_CONSUMPTION and CROP_WATER_NEEDS equal
\* their initial contents: no call adds, removes or changes an entry, calls
\* for unknown crops included.
C21_TablesNeverMutated ==
    /\ npkTable = CROP_NPK_CONSUMPTION
    /\ waterTable = CROP_WATER_NEEDS

\* Witness of C21: a call for an unknown crop has returned with the default
\* profile while another thread is past its own lookup of the consumption
\* table, and the unknown crop is no key of either table.
C21_Witness ==
    \E t1 \in Threads, t2 \in Threads :
        /\ t1 # t2
        /\ analysisPc[t1] = "returned"
        /\ analysisIn[t1].crop = "dragonfruit"
        /\ analysisOut[t1].nutrient_depletion.consumption = [N |-> 100, P |-> 50, K |-> 50]
        /\ analysisOut[t1].water_risk.water_need = 600
        /\ analysisPc[t2] = "water_risk"
        /\ "dragonfruit" \notin DOMAIN npkTable
        /\ "dragonfruit" \notin DOMAIN waterTable

(***************************************************************************)
(* Further claims about the explanation and the chart.                     *)
(***************************************************************************)
SelectedNames ==
    {SelectedAt(explainIn.feature_importance, r)[1] :
        r \in 1..Min(3, Len(explainIn.feature_importance))}

\* C22: the explanation is the generic '<crop> is suitable for the given
\* soil and climate conditions.' sentence iff none of the selected top-3
\* names is one of the seven features (the importance map empty or naming
\* only unknown features); with one known name selected it is not.
C22_GenericIffNoPhrase ==
    ExplainDone =>
        /\ (explainOut.explanation = GenericExplanation(explainIn.crop))
              <=> ~ \E name \in SelectedNames : KnownFeature(name)
        /\ explainIn.feature_importance = <<>>
              => explainOut.explanation = GenericExplanation(explainIn.crop)

\* Witness of C22: an unknown name and a known one are both selected, and
\* the explanation is the known feature's phrase, not the generic sentence.
C22_Witness ==
    /\ ExplainDone
    /\ Len(explainIn.feature_importance) = 2
    /\ \E name \in SelectedNames : ~KnownFeature(name)
    /\ \E name \in SelectedNames : KnownFeature(name)
    /\ explainOut.explanation # GenericExplanation(explainIn.crop)
    /\ PhraseCount(explainOut.explanation) = 1

\* The places of the importance map whose feature a chart entry may stand
\* for: same name, same weight.
ChartSources(entry) ==
    {j \in 1..Len(explainIn.feature_importance) :
        /\ explainIn.feature_importance[j][1] = entry.feature
        /\ explainIn.feature_importance[j][2] = entry.importance}

\* C23: the importance chart has one entry per feature of the importance
\* map, none dropped or duplicated, in non-increasing order of importance,
\* each with the unmodified weight of its feature.
C23_ChartIsSortedPermutation ==
    ExplainDone =>
        LET chart == explainOut.importance_chart
            map == explainIn.feature_importance
        IN  /\ Len(chart) = Len(map)
            /\ \A i \in 1..Len(chart) : ChartSources(chart[i]) # {}
            /\ \A j \in 1..Len(map) :
                  Cardinality({i \in 1..Len(chart) : chart[i].feature = map[j][1]}) = 1
            /\ \A i \in 1..Len(chart) :
                  i < Len(chart) => chart[i].importance >= chart[i + 1].importance

\* Witness of C23: a map of four features given in increasing order of
\* weight comes out with the heaviest first and the lightest last.
C23_Witness ==
    /\ ExplainDone
    /\ Len(explainIn.feature_importance) = 4
    /\ explainIn.feature_importance[1][2] < explainIn.feature_importance[4][2]
    /\ Len(explainOut.importance_chart) = 4
    /\ explainOut.importance_chart[1].importance = explainIn.feature_importance[4][2]
    /\ explainOut.importance_chart[4].feature = explainIn.feature_importance[1][1]

(***************************************************************************)
(* Further claims about the ranker.                                        *)
(***************************************************************************)
ReturnedIndices == {LabelIndex(rankOut[k].crop) : k \in 1..Len(rankOut)}

\* C24: the predictions returned stand for distinct indices i of the input,
\* with crop = labels[i] and confidence = probabilities[i] (nothing is
\* renormalised), every label that is not returned has a probability no
\* greater than any returned confidence, and for 1 <= n <= L the indices
\* are n.
C24_TopNPassThrough ==
    RankDone =>
        /\ Cardinality(ReturnedIndices) = Len(rankOut)
        /\ \A k \in 1..Len(rankOut) :
              /\ \E i \in 1..RankLen : rankIn.labels[i] = rankOut[k].crop
              /\ rankOut[k].confidence
                    = rankIn.probabilities[LabelIndex(rankOut[k].crop)]
        /\ \A i \in (1..RankLen) \ ReturnedIndices :
              \A k \in 1..Len(rankOut) :
                  rankIn.probabilities[i] <= rankOut[k].confidence
        /\ RankValidN => Cardinality(ReturnedIndices) = rankIn.n

\* Witness of C24: two of three labels are returned with their own,
\* different probabilities, and the label left out has a smaller, positive
\* one.
C24_Witness ==
    /\ RankDone
    /\ RankLen = 3
    /\ rankIn.n = 2
    /\ Cardinality(ReturnedIndices) = 2
    /\ rankOut[1].confidence > rankOut[2].confidence
    /\ rankOut[1].confidence = rankIn.probabilities[LabelIndex(rankOut[1].crop)]
    /\ \E i \in (1..3) \ ReturnedIndices :
          /\ rankIn.probabilities[i] < rankOut[2].confidence
          /\ rankIn.probabilities[i] > 0

(***************************************************************************)
(* Further claims about the sustainability analyzer.                       *)
(***************************************************************************)
Suggested(entry) ==
    \E i \in 1..Len(report.crop_rotation.suggestions) :
        report.crop_rotation.suggestions[i] = entry

\* C25: the fallow / cover-crop suggestion is present only together with
\* the light-feeder suggestion: no rotation result holds the fallow entry
\* without the light-feeder entry.
C25_FallowOnlyWithLightFeeder ==
    SoilDone => (Suggested(FallowEntry) => Suggested(LightFeederEntry))

\* C26: the sustainability score is never below 50: the deduction is at
\* most 30 for the depletion (average capped at 100, times 0.3) plus 20 for
\* a high water risk, so the score is in [50, 100], the score before
\* clamping is not negative (the lower clamp at 0 is never exercised), and
\* the 'score < 60' recommendations (rotation, organic matter) appear only
\* when the water risk is 'high', or is 'medium' with no pH bonus and a
\* total depletion.
C26_ScoreAtLeastFifty ==
    SoilDone =>
        LET average == ReportedAverage IN
        /\ report.sustainability_score \in 50..100
        /\ FlGe(SpecifiedRawScore, FlFromInt(50))
        /\ FlGe(FlFromInt(100), average)
        /\ (Listed(AdviceRotation) \/ Listed(AdviceOrganic)) =>
              \/ report.water_risk.risk_level = "high"
              \/ /\ report.water_risk.risk_level = "medium"
                 /\ ~(CurrentPh >= 60 /\ CurrentPh <= 75)
                 /\ average = FlFromInt(100)

\* Witness of C26: every nutrient depleted to the cap, a high water risk
\* and no pH bonus: the score is 50 and the rotation advice is given.
C26_Witness ==
    /\ SoilDone
    /\ ReportedAverage = FlFromInt(100)
    /\ report.water_risk.risk_level = "high"
    /\ ~(CurrentPh >= 60 /\ CurrentPh <= 75)
    /\ report.sustainability_score = 50
    /\ Listed(AdviceRotation)
    /\ Listed(AdviceOrganic)

\* C27: in every water risk report deficit and surplus are both >= 0, at
\* most one of them is positive, deficit - surplus = water_need -
\* available_water, and a risk_level 'high' implies surplus = 0.
C27_DeficitSurplusExclusive ==
    SoilDone =>
        LET w == report.water_risk IN
        /\ w.deficit >= 0
        /\ w.surplus >= 0
        /\ ~(w.deficit > 0 /\ w.surplus > 0)
        /\ w.deficit - w.surplus = w.water_need - w.available_water
        /\ w.risk_level = "high" => w.surplus = 0

\* Witness of C27: a high risk with a positive deficit and no surplus, the
\* available water short of the need by the deficit.
C27_Witness ==
    /\ SoilDone
    /\ report.water_risk.risk_level = "high"
    /\ report.water_risk.deficit > 400
    /\ report.water_risk.surplus = 0
    /\ report.water_risk.available_water > 0
    /\ report.water_risk.deficit
          = report.water_risk.water_need - report.water_risk.available_water

=============================================================================
